---- MODULE Spec2Model ----
(***************************************************************************)
(* graphite-api query-resolution pipeline: the storage resolver            *)
(* (Store.find), the multi-source merger (MultiReader), the per-request    *)
(* fetch accumulator (DataStore, fetchData) and the two-pass render loop;  *)
(* TimeSeries consolidation, normalize and sumSeries, template             *)
(* substitution in path expressions, and _getPercentile.                   *)
(***************************************************************************)
EXTENDS Integers, Sequences, FiniteSets, TLC

VARIABLES
    pc,            \* position of the operation under way
    finderNodes,   \* per finder: the nodes its find_nodes(query) reports
    found,         \* the nodes Store.find has yielded, in order
    subFetch,      \* per underlying node of a MultiReader: outcome of node.fetch
    fetchOut,      \* outcome of MultiReader.fetch
    targets,       \* request_options['targets'] of the render request
    pathExprs,     \* render: paths, the path expressions pass 1 collected
    store,         \* fetchData: data_store (its paths and data dicts)
    singleNodes,   \* fetchData: single_nodes
    multiNodes,    \* fetchData: multi_nodes, by finder
    fetches,       \* fetchData: fetches, the (node, results) of the node.fetch calls
    ix,            \* index of the loop under way
    calls,         \* the calls made so far, in order
    contextData,   \* context['data'], the series evaluated so far
    error,         \* the exception that ended the request, if any
    inSeries,      \* the TimeSeries objects a series function is handed
    inArg,         \* the other argument of the function under way
    out            \* what the function under way returned

renderVars == <<targets, pathExprs, store, singleNodes, multiNodes, fetches, ix,
                calls, contextData, error>>
funcVars == <<inSeries, inArg, out>>
vars == <<pc, finderNodes, found, subFetch, fetchOut, renderVars, funcVars>>

(***************************************************************************)
(* Bounds                                                                  *)
(***************************************************************************)
NumFinders == 2
MaxTargets == 2    \* a render request has 0..MaxTargets targets
NumNodes == 2      \* underlying nodes of the MultiReader
MaxStart == 2      \* fetch results start at 0..MaxStart
MaxPoints == 1     \* a fetch result carries 1..MaxPoints samples
MaxLen == 4        \* a TimeSeries stores 1..MaxLen raw values
MaxPerPoint == 3   \* valuesPerPoint is 1..MaxPerPoint
MaxSpan == 3       \* a series handed to a function ends 2..MaxSpan after its start
MaxRow == 2        \* and stores 1..MaxRow raw values
MaxChars == 3      \* a bound template value has 0..MaxChars characters
MaxCount == 3      \* _getPercentile is handed 0..MaxCount points, or a range
MaxPattern == 5    \* expand_braces is handed patterns of 0..MaxPattern characters
MaxGlob == 3       \* match_entries is handed patterns of 0..MaxGlob characters
MaxEntries == 3    \* and lists of 0..MaxEntries names
MaxCalls == 2      \* stacked is called up to MaxCalls times in one request
MaxPosition == 2   \* ring positions are 0..MaxPosition
MaxReplicas == 2   \* a ring has 1..MaxReplicas entries per node
MaxOps == 3        \* and is changed by up to MaxOps calls of add_node/remove_node
MinTime == 1000    \* time.time() is MinTime at the least
MaxTicks == 1      \* and the clock is moved on up to MaxTicks times
MaxRequests == 2   \* a pool sends up to MaxRequests requests

\* Concrete metric paths, listed in ascending (sorted) order.
PathNames == <<"a.b", "a.c">>
Paths == {PathNames[i] : i \in 1..Len(PathNames)}
PathIndex(p) == CHOOSE i \in 1..Len(PathNames) : PathNames[i] = p

Finders == 1..NumFinders

(***************************************************************************)
(* Nodes (graphite_api.node): identity is the object; a node reported by   *)
(* a finder is told apart by the finder that built it.                     *)
(***************************************************************************)
Reader(f) == [kind |-> "Reader", of |-> f, nodes |-> {}]
NoReader(f) == [kind |-> "none", of |-> f, nodes |-> {}]
MultiReader(nodes) == [kind |-> "MultiReader", of |-> 0, nodes |-> nodes]

LeafNode(path, reader) == [path |-> path, is_leaf |-> TRUE, reader |-> reader]
BranchNode(path, f) == [path |-> path, is_leaf |-> FALSE, reader |-> NoReader(f)]

(***************************************************************************)
(* Fetch results: (time_info, values) with time_info = (start, end, step); *)
(* a sample is a number or None.                                           *)
(***************************************************************************)
Null == -1

Min(a, b) == IF a < b THEN a ELSE b
Max(a, b) == IF a > b THEN a ELSE b

Result(start, end, step, values) ==
    [kind |-> "result", time_info |-> <<start, end, step>>, values |-> values]
Raised == [kind |-> "raise", time_info |-> <<0, 0, 0>>, values |-> <<>>]
NoResult == [kind |-> "none", time_info |-> <<0, 0, 0>>, values |-> <<>>]

\* Python list indexing values[i]: a negative i counts from the end
PyIndexError(values, i) == i >= Len(values) \/ i < -Len(values)
PyGet(values, i) == IF i >= 0 THEN values[i + 1] ELSE values[Len(values) + i + 1]

(***************************************************************************)
(* Store.find                                                              *)
(***************************************************************************)
\* matching_nodes: the union of what every finder reports (a set of objects)
matching_nodes(reports) == UNION {reports[f] : f \in DOMAIN reports}

\* nodes_by_path[path]
nodes_by_path(nodes, path) == {n \in nodes : n.path = path}

\* A plausible slip: any non-empty group is reduced to one of its leaves.
ReduceLeavesPopOne(path, leaf_nodes) ==
    IF leaf_nodes = {} THEN <<>>
    ELSE <<CHOOSE n \in leaf_nodes : TRUE>>

\* lines 46-53: no leaf -> nothing; one leaf -> itself; more -> MultiReader
ReduceLeaves(path, leaf_nodes) ==
    IF leaf_nodes = {} THEN <<>>
    ELSE IF Cardinality(leaf_nodes) = 1
         THEN <<CHOOSE n \in leaf_nodes : TRUE>>
         ELSE <<LeafNode(path, MultiReader(leaf_nodes))>>

\* lines 33-53 for one path; `first` is the branch node the iteration over the
\* group meets first (the group comes from a set, so the order is arbitrary).
FindPath(nodes, path, first) ==
    LET group == nodes_by_path(nodes, path)
        branches == {n \in group : ~n.is_leaf}
        leaf_nodes == {n \in group : n.is_leaf}
    IN (IF branches = {} THEN <<>> ELSE <<first[path]>>)
       \o ReduceLeaves(path, leaf_nodes)

RECURSIVE FindFrom(_, _, _)
FindFrom(nodes, i, first) ==
    IF i > Len(PathNames) THEN <<>>
    ELSE FindPath(nodes, PathNames[i], first) \o FindFrom(nodes, i + 1, first)

\* Store.find(pattern): everything the generator yields, in order
find(reports, first) == FindFrom(matching_nodes(reports), 1, first)

\* the possible iteration orders: which branch node of a path comes first
FirstBranchChoices(nodes) ==
    {first \in [Paths -> nodes \cup {BranchNode("", 0)}] :
        \A p \in Paths :
            LET branches == {n \in nodes_by_path(nodes, p) : ~n.is_leaf}
            IN IF branches = {} THEN first[p] = BranchNode("", 0)
               ELSE first[p] \in branches}

\* a finder's report, from the shapes <<path, is_leaf>> it matched
Shapes == Paths \X BOOLEAN
MakeNode(f, shape) ==
    IF shape[2] THEN LeafNode(shape[1], Reader(f)) ELSE BranchNode(shape[1], f)

\* no render request under way
IdleFunctions ==
    /\ inSeries = <<>>
    /\ inArg = <<>>
    /\ out = <<>>

IdleRender ==
    /\ targets = <<>>
    /\ pathExprs = <<>>
    /\ store = [paths |-> <<>>, data |-> <<>>]
    /\ singleNodes = <<>>
    /\ multiNodes = <<>>
    /\ fetches = <<>>
    /\ ix = 0
    /\ calls = <<>>
    /\ contextData = <<>>
    /\ error = ""

InitFind ==
    /\ IdleFunctions
    /\ IdleRender
    /\ pc = "find"
    /\ \E sh \in [Finders -> SUBSET Shapes] :
           finderNodes = [f \in Finders |-> {MakeNode(f, s) : s \in sh[f]}]
    /\ found = <<>>
    /\ subFetch = <<>>
    /\ fetchOut = [status |-> "none", data |-> NoResult]

StoreFind ==
    /\ UNCHANGED funcVars
    /\ pc = "find"
    /\ \E first \in FirstBranchChoices(matching_nodes(finderNodes)) :
           found' = find(finderNodes, first)
    /\ pc' = "found"
    /\ UNCHANGED <<finderNodes, subFetch, fetchOut, renderVars>>

NextFind == StoreFind

SpecFind == InitFind /\ [][NextFind]_vars

(***************************************************************************)
(* MultiReader.merge                                                       *)
(***************************************************************************)
\* lines 42-44: ensure results1 is finer than results2
Finer(results1, results2) ==
    IF results1.time_info[3] > results2.time_info[3] THEN results2 ELSE results1
Coarser(results1, results2) ==
    IF results1.time_info[3] > results2.time_info[3] THEN results1 ELSE results2

\* lines 60-65: the index looked up in one series for output time t
SlotIndex(r, t) == (t - r.time_info[1]) \div r.time_info[3]

\* lines 62-65, 70-73: `values[i] if len(values) > i else None`
SlotRaises(r, t) ==
    Len(r.values) > SlotIndex(r, t) /\ PyIndexError(r.values, SlotIndex(r, t))
SlotValue(r, t) ==
    IF Len(r.values) > SlotIndex(r, t) THEN PyGet(r.values, SlotIndex(r, t))
    ELSE Null

\* lines 57-79: one pass of the while loop
MergeRaisesAt(r1, r2, t) ==
    \/ SlotRaises(r1, t)
    \/ SlotValue(r1, t) = Null /\ SlotRaises(r2, t)
MergeValueAt(r1, r2, t) ==
    IF SlotValue(r1, t) = Null THEN SlotValue(r2, t) ELSE SlotValue(r1, t)

\* number of passes of `while t < end`, t advancing by step from start
LoopCount(start, end, step) ==
    IF end <= start THEN 0 ELSE (end - start + step - 1) \div step

merge(results1, results2) ==
    LET r1 == Finer(results1, results2)
        r2 == Coarser(results1, results2)
        step == r1.time_info[3]
        start == Min(r1.time_info[1], r2.time_info[1])
        end == Max(r1.time_info[2], r2.time_info[2])
        n == LoopCount(start, end, step)
        T(k) == start + (k - 1) * step
    IN IF \E k \in 1..n : MergeRaisesAt(r1, r2, T(k))
       THEN [kind |-> "IndexError", time_info |-> <<0, 0, 0>>, values |-> <<>>]
       ELSE Result(start, end, step, [k \in 1..n |-> MergeValueAt(r1, r2, T(k))])

(***************************************************************************)
(* MultiReader.fetch                                                       *)
(***************************************************************************)
\* lines 24-29 and filter(None, results): the results that count
RECURSIVE Returned(_)
Returned(outcomes) ==
    IF outcomes = <<>> THEN <<>>
    ELSE (IF Head(outcomes).kind = "result" THEN <<Head(outcomes)>> ELSE <<>>)
         \o Returned(Tail(outcomes))

\* lines 31-36: data = merge(data, r) over the results, left to right
RECURSIVE MergeAll(_, _)
MergeAll(data, rest) ==
    IF rest = <<>> \/ data.kind = "IndexError" THEN data
    ELSE MergeAll(merge(data, Head(rest)), Tail(rest))

AllFailed == [status |-> "AllSubFetchesFailed", data |-> NoResult]

\* A plausible slip: the `if data is None: raise` guard is missing.
fetchUnguarded(outcomes) ==
    LET results == Returned(outcomes)
    IN IF results = <<>> THEN [status |-> "returned", data |-> NoResult]
       ELSE LET data == MergeAll(Head(results), Tail(results))
            IN IF data.kind = "IndexError"
               THEN [status |-> "IndexError", data |-> data]
               ELSE [status |-> "returned", data |-> data]

fetch(outcomes) ==
    LET results == Returned(outcomes)
    IN IF results = <<>> THEN AllFailed
       ELSE LET data == MergeAll(Head(results), Tail(results))
            IN IF data.kind = "IndexError"
               THEN [status |-> "IndexError", data |-> data]
               ELSE [status |-> "returned", data |-> data]

\* What node.fetch of the i-th underlying node can do. Its samples are told
\* apart from every other node's: merge never looks at a sample beyond
\* testing it for None.
Sample(i, k) == 10 * i + k
Steps == {1, 2}
NodeOutcomes(i) ==
    {Raised, NoResult} \cup
    UNION {{Result(start, start + n * step, step,
                   [k \in 1..n |-> IF k \in has THEN Sample(i, k) ELSE Null]) :
                has \in SUBSET (1..n)} :
            <<start, step, n>> \in (0..MaxStart) \X Steps \X (1..MaxPoints)}

RECURSIVE OutcomeSeqs(_)
OutcomeSeqs(n) ==
    IF n = 0 THEN {<<>>}
    ELSE {Append(s, o) : s \in OutcomeSeqs(n - 1), o \in NodeOutcomes(n)}

InitReader ==
    /\ IdleFunctions
    /\ IdleRender
    /\ pc = "fetch"
    /\ subFetch \in OutcomeSeqs(NumNodes)
    /\ fetchOut = [status |-> "none", data |-> NoResult]
    /\ finderNodes = <<>>
    /\ found = <<>>

MultiReaderFetch ==
    /\ UNCHANGED funcVars
    /\ pc = "fetch"
    /\ fetchOut' = fetch(subFetch)
    /\ pc' = "fetched"
    /\ UNCHANGED <<finderNodes, found, subFetch, renderVars>>

NextReader == MultiReaderFetch

SpecReader == InitReader /\ [][NextReader]_vars

(***************************************************************************)
(* The per-request fetch accumulator (render/datalib.py: DataStore)        *)
(***************************************************************************)
\* a Python dict as a function over its keys; <<>> is the empty dict
HasKey(dict, key) == key \in DOMAIN dict

\* DataStore.__init__: paths = defaultdict(set), data = defaultdict(list)
NewDataStore == [paths |-> <<>>, data |-> <<>>]

\* DataStore.add_path: self.paths[path_expr].add(path)
add_path(paths, path_expr, path) ==
    IF HasKey(paths, path_expr)
    THEN [paths EXCEPT ![path_expr] = @ \cup {path}]
    ELSE paths @@ (path_expr :> {path})

\* sorted(...) of a set of paths
SortPaths(S) == SelectSeq(PathNames, LAMBDA p : p \in S)

\* DataStore.get_paths: sorted(self.paths[path_expr]); reading a missing key
\* of a defaultdict stores the default under that key
get_paths(paths, path_expr) ==
    IF HasKey(paths, path_expr) THEN SortPaths(paths[path_expr]) ELSE <<>>
paths_after_get(paths, path_expr) ==
    IF HasKey(paths, path_expr) THEN paths ELSE paths @@ (path_expr :> {})

\* nonempty(series): some value is not None
nonempty(series) == \E i \in 1..Len(series) : series[i] # Null

\* A plausible slip: an all-null result is dropped whenever anything is stored.
add_data_drop_any(data, path, time_info, values) ==
    LET stored == IF HasKey(data, path) THEN data[path] ELSE <<>>
        entry == [time_info |-> time_info, values |-> values]
    IN IF ~nonempty(values) /\ stored # <<>>
       THEN data
       ELSE IF HasKey(data, path)
            THEN [data EXCEPT ![path] = Append(@, entry)]
            ELSE data @@ (path :> <<entry>>)

\* DataStore.add_data
add_data(data, path, time_info, values) ==
    LET stored == IF HasKey(data, path) THEN data[path] ELSE <<>>
        entry == [time_info |-> time_info, values |-> values]
    IN IF ~nonempty(values) /\ \E i \in 1..Len(stored) : nonempty(stored[i].values)
       THEN data
       ELSE IF HasKey(data, path)
            THEN [data EXCEPT ![path] = Append(@, entry)]
            ELSE data @@ (path :> <<entry>>)

\* TimeSeries.__init__, with the pathExpression get_series_list sets on it
TimeSeries(name, start, end, step, values, path_expr) ==
    [name |-> name, start |-> start, end |-> end, step |-> step,
     values |-> values, consolidationFunc |-> "average", valuesPerPoint |-> 1,
     pathExpression |-> path_expr]

\* the inner loop of get_series_list over self.data.get(path)
SeriesOfPath(stored, path, path_expr) ==
    [i \in 1..Len(stored) |->
        TimeSeries(path, stored[i].time_info[1], stored[i].time_info[2],
                   stored[i].time_info[3], stored[i].values, path_expr)]

RECURSIVE SeriesOfPaths(_, _, _)
SeriesOfPaths(data, ps, path_expr) ==
    IF ps = <<>> THEN <<>>
    ELSE SeriesOfPath(data[Head(ps)], Head(ps), path_expr)
         \o SeriesOfPaths(data, Tail(ps), path_expr)

\* DataStore.get_series_list: self.data.get(path) is None for a path without
\* stored data, and iterating None raises TypeError
get_series_list(ds, path_expr) ==
    LET ps == get_paths(ds.paths, path_expr)
        after == paths_after_get(ds.paths, path_expr)
    IN IF \E i \in 1..Len(ps) : ~HasKey(ds.data, ps[i])
       THEN [status |-> "TypeError: 'NoneType' object is not iterable",
             value |-> <<>>, paths |-> after]
       ELSE [status |-> "ok", value |-> SeriesOfPaths(ds.data, ps, path_expr),
             paths |-> after]

(***************************************************************************)
(* Parse trees (render/grammar.py) and the evaluator (evaluator.py)        *)
(***************************************************************************)
PathExpression(expr) ==
    [type |-> "pathExpression", expr |-> expr, funcname |-> "", args |-> <<>>]
StringLiteral(str) ==
    [type |-> "string", expr |-> str, funcname |-> "", args |-> <<>>]
Call(funcname, args) ==
    [type |-> "call", expr |-> "", funcname |-> funcname, args |-> args]
ParseException ==
    [type |-> "ParseException", expr |-> "", funcname |-> "", args |-> <<>>]

\* the target strings a request is made of
Targets == {"a.b", "a.*", "x.y", "group(a.b,x.y)", "timeShift(a.*,'1h')", ""}

\* target.strip() (no target above has blanks around it)
strip(target) == target

\* grammar.parseString(target); the Expression wrapper is folded into its child
grammar(target) ==
    CASE target = "a.b" -> PathExpression("a.b")
      [] target = "a.*" -> PathExpression("a.*")
      [] target = "x.y" -> PathExpression("x.y")
      [] target = "group(a.b,x.y)" ->
             Call("group", <<PathExpression("a.b"), PathExpression("x.y")>>)
      [] target = "timeShift(a.*,'1h')" ->
             Call("timeShift", <<PathExpression("a.*"), StringLiteral("1h")>>)
      [] OTHER -> ParseException

\* the concrete paths a pattern matches in the namespace
Matches(pattern) ==
    CASE pattern = "a.b" -> {"a.b"}
      [] pattern = "a.c" -> {"a.c"}
      [] pattern = "a.*" -> {"a.b", "a.c"}
      [] OTHER -> {}

RECURSIVE pathsFromTokens(_)
RECURSIVE PathsFromArgs(_)
PathsFromArgs(args) ==
    IF args = <<>> THEN <<>>
    ELSE pathsFromTokens(Head(args)) \o PathsFromArgs(Tail(args))
pathsFromTokens(tokens) ==
    CASE tokens.type = "pathExpression" -> <<tokens.expr>>
      [] tokens.type = "call" -> PathsFromArgs(tokens.args)
      [] OTHER -> <<>>

pathsFromTarget(target) == pathsFromTokens(grammar(target))

\* functions.group: the series lists, joined
group(seriesLists) ==
    LET Join[i \in 0..Len(seriesLists)] ==
            IF i = 0 THEN <<>> ELSE Join[i - 1] \o seriesLists[i]
    IN [status |-> "ok", value |-> Join[Len(seriesLists)]]

\* functions.timeShift: an empty series list is returned as it is; otherwise
\* pathsFromTarget is called with one argument of its two and raises TypeError
\* before fetchData is reached
timeShift(seriesList) ==
    IF seriesList = <<>> THEN [status |-> "ok", value |-> <<>>]
    ELSE [status |-> "TypeError: pathsFromTarget() missing argument",
          value |-> <<>>]

\* app.functions[funcname](requestContext, *args)
ApplyFunction(funcname, args) ==
    CASE funcname = "group" -> group(args)
      [] funcname = "timeShift" -> timeShift(args[1])
      [] OTHER -> [status |-> "KeyError", value |-> <<>>]

\* evaluateTokens(requestContext, tokens, data_store): the value, and the
\* accumulator's paths dict as the lookups leave it
RECURSIVE evaluateTokens(_, _)
RECURSIVE EvaluateArgs(_, _, _)
EvaluateArgs(args, ds, done) ==
    IF args = <<>> THEN [status |-> "ok", value |-> done, paths |-> ds.paths]
    ELSE LET r == evaluateTokens(Head(args), ds)
         IN IF r.status # "ok" THEN r
            ELSE EvaluateArgs(Tail(args), [ds EXCEPT !.paths = r.paths],
                              Append(done, r.value))
evaluateTokens(tokens, ds) ==
    CASE tokens.type = "pathExpression" -> get_series_list(ds, tokens.expr)
      [] tokens.type = "call" ->
             LET a == EvaluateArgs(tokens.args, ds, <<>>)
             IN IF a.status # "ok" THEN a
                ELSE LET r == ApplyFunction(tokens.funcname, a.value)
                     IN [status |-> r.status, value |-> r.value, paths |-> a.paths]
      [] tokens.type = "string" ->
             [status |-> "ok", value |-> tokens.expr, paths |-> ds.paths]
      [] OTHER -> [status |-> "ValueError", value |-> <<>>, paths |-> ds.paths]

\* "no data_store was passed"
None == [paths |-> <<>>, data |-> <<>>, none |-> TRUE]
IsNone(data_store) == "none" \in DOMAIN data_store

\* A plausible slip: evaluateTarget fetches again although it was handed the
\* accumulator.
evaluateTargetRefetching(target, data_store) ==
    LET tokens == grammar(target)
    IN IF tokens.type = "ParseException"
       THEN [status |-> "ParseException", value |-> <<>>,
             paths |-> data_store.paths, fetched |-> <<>>]
       ELSE evaluateTokens(tokens, data_store) @@
            [fetched |-> <<pathsFromTokens(tokens)>>]

\* evaluateTarget(requestContext, target, data_store); `fetched` lists the
\* fetchData calls it makes itself, each by the path expressions passed
evaluateTarget(target, data_store) ==
    LET tokens == grammar(target)
    IN IF tokens.type = "ParseException"
       THEN [status |-> "ParseException", value |-> <<>>,
             paths |-> data_store.paths, fetched |-> <<>>]
       ELSE IF IsNone(data_store)
            THEN [status |-> "refetch", value |-> <<>>,
                  paths |-> data_store.paths,
                  fetched |-> <<pathsFromTokens(tokens)>>]
            ELSE evaluateTokens(tokens, data_store) @@ [fetched |-> <<>>]

(***************************************************************************)
(* fetchData (render/datalib.py)                                           *)
(***************************************************************************)
\* app.store.finders, in order; the finders with a __fetch_multi__ tag
StoreFinders == <<1, 2, 3>>
MultiFinders == {2, 3}

\* the finders a path can live on: one of them, or two at once
Homes == {{1}, {2}, {3}, {1, 2}}

\* app.store.find(pathExpr): each finder reports its nodes the pattern matches
FindNodes(world, pathExpr) ==
    LET reports == [f \in DOMAIN world |->
                       {n \in world[f] : n.path \in Matches(pathExpr)}]
    IN find(reports,
            CHOOSE first \in FirstBranchChoices(matching_nodes(reports)) : TRUE)

\* lines 143-147: the (pathExpr, leaf node) pairs in the order met
RECURSIVE LeafPairs(_, _)
LeafPairs(world, exprs) ==
    IF exprs = <<>> THEN <<>>
    ELSE LET nodes == SelectSeq(FindNodes(world, Head(exprs)),
                                LAMBDA n : n.is_leaf)
         IN [i \in 1..Len(nodes) |->
                [path_expr |-> Head(exprs), node |-> nodes[i]]]
            \o LeafPairs(world, Tail(exprs))

\* line 148: data_store.add_path(pathExpr, node.path) for every pair
RECURSIVE AddPaths(_, _)
AddPaths(paths, pairs) ==
    IF pairs = <<>> THEN paths
    ELSE AddPaths(add_path(paths, Head(pairs).path_expr, Head(pairs).node.path),
                  Tail(pairs))

\* hasattr(node, '__fetch_multi__'): nodes built by a multi-fetch finder
HasFetchMulti(node) ==
    node.reader.kind = "Reader" /\ node.reader.of \in MultiFinders

NodesOf(pairs) == [i \in 1..Len(pairs) |-> pairs[i].node]

\* A plausible slip: the nodes of multi-fetch finders are fetched one by one too.
GroupSingleAll(pairs) == NodesOf(pairs)

\* lines 149-151
GroupSingle(pairs) ==
    NodesOf(SelectSeq(pairs, LAMBDA pr : ~HasFetchMulti(pr.node)))
GroupMulti(pairs) ==
    [f \in MultiFinders |->
        NodesOf(SelectSeq(pairs, LAMBDA pr :
                    HasFetchMulti(pr.node) /\ pr.node.reader.of = f))]

\* lines 161-162: data_store.add_data for every item of the series dict
RECURSIVE AddSeries(_, _, _, _)
AddSeries(data, time_info, series, ps) ==
    IF ps = <<>> THEN data
    ELSE AddSeries(add_data(data, Head(ps), time_info, series[Head(ps)]),
                   time_info, series, Tail(ps))

\* what finder.fetch_multi(nodes, ...) can return: values for some of the
\* nodes' paths
MultiSeries(f, nodes) ==
    LET asked == {nodes[i].path : i \in 1..Len(nodes)}
    IN UNION {{[p \in got |-> IF p \in has THEN <<Sample(f, PathIndex(p))>>
                              ELSE <<Null>>] : has \in SUBSET got} :
                got \in SUBSET asked}

\* what node.fetch(startTime, endTime) of the i-th single node can do
FetchOutcomes(i) ==
    {Raised, NoResult, Result(0, 1, 1, <<Null>>), Result(0, 1, 1, <<Sample(i, 1)>>)}

\* lines 164-166: the calls the list comprehension makes; the first one that
\* raises ends it
FetchPrefix(outs) ==
    IF \E i \in 1..Len(outs) : outs[i].kind = "raise"
    THEN SubSeq(outs, 1, CHOOSE i \in 1..Len(outs) :
                    /\ outs[i].kind = "raise"
                    /\ \A j \in 1..(i - 1) : outs[j].kind # "raise")
    ELSE outs

RECURSIVE FetchSeqs(_)
FetchSeqs(n) ==
    IF n = 0 THEN {<<>>}
    ELSE {Append(s, o) : s \in FetchSeqs(n - 1), o \in FetchOutcomes(n)}

(***************************************************************************)
(* A render request (app.py: render), graphType 'line'                     *)
(***************************************************************************)
RECURSIVE TargetLists(_)
TargetLists(n) ==
    IF n = 0 THEN {<<>>}
    ELSE TargetLists(n - 1) \cup
         {Append(l, t) : l \in {l \in TargetLists(n - 1) : Len(l) = n - 1},
                         t \in Targets}

Called(op, by, arg) == [op |-> op, by |-> by, arg |-> arg]

InitRender ==
    /\ IdleFunctions
    /\ pc = "collect"
    /\ \E home \in [Paths -> Homes] :
           finderNodes = [f \in {StoreFinders[i] : i \in 1..Len(StoreFinders)} |->
                             {LeafNode(p, Reader(f)) : p \in {q \in Paths : f \in home[q]}}]
    /\ targets \in TargetLists(MaxTargets)
    /\ pathExprs = <<>>
    /\ store = NewDataStore
    /\ singleNodes = <<>>
    /\ multiNodes = [f \in MultiFinders |-> <<>>]
    /\ fetches = <<>>
    /\ ix = 0
    /\ calls = <<>>
    /\ contextData = <<>>
    /\ error = ""
    /\ found = <<>>
    /\ subFetch = <<>>
    /\ fetchOut = [status |-> "none", data |-> NoResult]

\* lines 381-386: pass 1, the path expressions of every non-blank target
RECURSIVE CollectedPaths(_)
CollectedPaths(ts) ==
    IF ts = <<>> THEN <<>>
    ELSE (IF strip(Head(ts)) # "" THEN pathsFromTarget(Head(ts)) ELSE <<>>)
         \o CollectedPaths(Tail(ts))
RECURSIVE CollectCalls(_)
CollectCalls(ts) ==
    IF ts = <<>> THEN <<>>
    ELSE (IF strip(Head(ts)) # ""
          THEN <<Called("pathsFromTarget", "render", Head(ts))>> ELSE <<>>)
         \o CollectCalls(Tail(ts))

CollectPaths ==
    /\ UNCHANGED funcVars
    /\ pc = "collect"
    /\ pathExprs' = CollectedPaths(targets)
    /\ calls' = calls \o CollectCalls(targets)
    /\ pc' = "fetchData"
    /\ UNCHANGED <<finderNodes, found, subFetch, fetchOut, targets, store,
                   singleNodes, multiNodes, fetches, ix, contextData, error>>

\* render line 387 calls fetchData; datalib lines 138-151: resolve and group
FetchResolve ==
    /\ UNCHANGED funcVars
    /\ pc = "fetchData"
    /\ LET pairs == LeafPairs(finderNodes, pathExprs)
       IN /\ store' = [NewDataStore EXCEPT !.paths = AddPaths(<<>>, pairs)]
          /\ singleNodes' = GroupSingle(pairs)
          /\ multiNodes' = GroupMulti(pairs)
    /\ calls' = Append(calls, Called("fetchData", "render", pathExprs))
    /\ ix' = 1
    /\ pc' = "multi"
    /\ UNCHANGED <<finderNodes, found, subFetch, fetchOut, targets, pathExprs,
                   fetches, contextData, error>>

\* lines 154-159: a finder without the tag, or without nodes, is passed over
FetchMultiSkip ==
    /\ UNCHANGED funcVars
    /\ pc = "multi"
    /\ ix <= Len(StoreFinders)
    /\ \/ StoreFinders[ix] \notin MultiFinders
       \/ /\ StoreFinders[ix] \in MultiFinders
          /\ multiNodes[StoreFinders[ix]] = <<>>
    /\ ix' = ix + 1
    /\ UNCHANGED <<pc, finderNodes, found, subFetch, fetchOut, targets, pathExprs,
                   store, singleNodes, multiNodes, fetches, calls, contextData,
                   error>>

\* lines 160-162: one fetch_multi call and its results stored
FetchMultiCall ==
    /\ UNCHANGED funcVars
    /\ pc = "multi"
    /\ ix <= Len(StoreFinders)
    /\ StoreFinders[ix] \in MultiFinders
    /\ multiNodes[StoreFinders[ix]] # <<>>
    /\ LET f == StoreFinders[ix]
       IN /\ calls' = Append(calls, Called("fetch_multi", "fetchData",
                                           [finder |-> f, nodes |-> multiNodes[f]]))
          /\ \/ /\ pc' = "raised"
                /\ error' = "fetch_multi"
                /\ UNCHANGED <<store, ix>>
             \/ /\ \E series \in MultiSeries(f, multiNodes[f]) :
                       store' = [store EXCEPT !.data =
                                    AddSeries(@, <<0, 1, 1>>, series,
                                              SortPaths(DOMAIN series))]
                /\ ix' = ix + 1
                /\ UNCHANGED <<pc, error>>
    /\ UNCHANGED <<finderNodes, found, subFetch, fetchOut, targets, pathExprs,
                   singleNodes, multiNodes, fetches, contextData>>

\* lines 164-166: node.fetch of every single node, in order
FetchSingles ==
    /\ UNCHANGED funcVars
    /\ pc = "multi"
    /\ ix > Len(StoreFinders)
    /\ \E outs \in FetchSeqs(Len(singleNodes)) :
           /\ fetches' = [i \in 1..Len(FetchPrefix(outs)) |->
                             [node |-> singleNodes[i], results |-> outs[i]]]
           /\ IF \E i \in 1..Len(outs) : outs[i].kind = "raise"
              THEN pc' = "raised" /\ error' = "fetch"
              ELSE pc' = "store" /\ error' = error
    /\ ix' = 1
    /\ UNCHANGED <<finderNodes, found, subFetch, fetchOut, targets, pathExprs,
                   store, singleNodes, multiNodes, calls, contextData>>

\* lines 168-171: `if not results: continue`
StoreSkip ==
    /\ UNCHANGED funcVars
    /\ pc = "store"
    /\ ix <= Len(fetches)
    /\ fetches[ix].results.kind = "none"
    /\ ix' = ix + 1
    /\ UNCHANGED <<pc, finderNodes, found, subFetch, fetchOut, targets, pathExprs,
                   store, singleNodes, multiNodes, fetches, calls, contextData,
                   error>>

\* lines 173-178: data_store.add_data(node.path, time_info, values)
StoreAdd ==
    /\ UNCHANGED funcVars
    /\ pc = "store"
    /\ ix <= Len(fetches)
    /\ fetches[ix].results.kind = "result"
    /\ store' = [store EXCEPT !.data =
                    add_data(@, fetches[ix].node.path,
                             fetches[ix].results.time_info,
                             fetches[ix].results.values)]
    /\ ix' = ix + 1
    /\ UNCHANGED <<pc, finderNodes, found, subFetch, fetchOut, targets, pathExprs,
                   singleNodes, multiNodes, fetches, calls, contextData, error>>

\* line 180: return data_store
FetchReturn ==
    /\ UNCHANGED funcVars
    /\ pc = "store"
    /\ ix > Len(fetches)
    /\ pc' = "evaluate"
    /\ ix' = 1
    /\ UNCHANGED <<finderNodes, found, subFetch, fetchOut, targets, pathExprs,
                   store, singleNodes, multiNodes, fetches, calls, contextData,
                   error>>

\* lines 411-413: a blank target is passed over
EvaluateSkip ==
    /\ UNCHANGED funcVars
    /\ pc = "evaluate"
    /\ ix <= Len(targets)
    /\ strip(targets[ix]) = ""
    /\ ix' = ix + 1
    /\ UNCHANGED <<pc, finderNodes, found, subFetch, fetchOut, targets, pathExprs,
                   store, singleNodes, multiNodes, fetches, calls, contextData,
                   error>>

RECURSIVE FetchDataCalls(_, _)
FetchDataCalls(by, fetched) ==
    IF fetched = <<>> THEN <<>>
    ELSE <<Called("fetchData", by, Head(fetched))>>
         \o FetchDataCalls(by, Tail(fetched))

\* lines 414-418: pass 2, evaluateTarget(context, target, data_store)
EvaluateTarget ==
    /\ UNCHANGED funcVars
    /\ pc = "evaluate"
    /\ ix <= Len(targets)
    /\ strip(targets[ix]) # ""
    /\ LET r == evaluateTarget(targets[ix], store)
       IN /\ calls' = Append(calls, Called("evaluateTarget", "render", targets[ix]))
                      \o FetchDataCalls("evaluateTarget", r.fetched)
          /\ store' = [store EXCEPT !.paths = r.paths]
          /\ IF r.status = "ok"
             THEN /\ contextData' = contextData \o r.value
                  /\ ix' = ix + 1
                  /\ UNCHANGED <<pc, error>>
             ELSE /\ pc' = "raised"
                  /\ error' = r.status
                  /\ UNCHANGED <<contextData, ix>>
    /\ UNCHANGED <<finderNodes, found, subFetch, fetchOut, targets, pathExprs,
                   singleNodes, multiNodes, fetches>>

\* every target is evaluated: the response is built from context['data']
RenderDone ==
    /\ UNCHANGED funcVars
    /\ pc = "evaluate"
    /\ ix > Len(targets)
    /\ pc' = "done"
    /\ UNCHANGED <<finderNodes, found, subFetch, fetchOut, renderVars>>

NextRender ==
    \/ CollectPaths
    \/ FetchResolve
    \/ FetchMultiSkip
    \/ FetchMultiCall
    \/ FetchSingles
    \/ StoreSkip
    \/ StoreAdd
    \/ FetchReturn
    \/ EvaluateSkip
    \/ EvaluateTarget
    \/ RenderDone

SpecRender == InitRender /\ [][NextRender]_vars

(***************************************************************************)
(* TimeSeries (render/datalib.py): consolidation and iteration             *)
(***************************************************************************)
\* Greatest common divisor (functions.py)
RECURSIVE gcd(_, _)
gcd(a, b) == IF b = 0 THEN a ELSE gcd(b, a % b)

\* float(a) / b for whole a >= 0 and b > 0, exactly: a whole quotient is that
\* number (2.0 == 2), any other one the reduced fraction
float_div(a, b) ==
    IF a % b = 0 THEN a \div b
    ELSE [num |-> a \div gcd(a, b), den |-> b \div gcd(a, b)]

RECURSIVE SumSeq(_)
SumSeq(values) == IF values = <<>> THEN 0 ELSE Head(values) + SumSeq(Tail(values))
MaxSeq(values) == CHOOSE v \in {values[i] : i \in 1..Len(values)} :
                      \A i \in 1..Len(values) : values[i] <= v
MinSeq(values) == CHOOSE v \in {values[i] : i \in 1..Len(values)} :
                      \A i \in 1..Len(values) : values[i] >= v

\* [v for v in values if v is not None]; also `while None in buf: buf.remove(None)`
not_none(values) == SelectSeq(values, LAMBDA v : v # Null)

ConsolidationFuncs == {"sum", "average", "max", "min"}

\* A plausible slip: the average is taken over the whole window, nulls included.
TimeSeries_consolidate_window(series, values) ==
    LET usable == not_none(values)
    IN IF usable = <<>> THEN Null
       ELSE CASE series.consolidationFunc = "sum" -> SumSeq(usable)
              [] series.consolidationFunc = "average" ->
                     float_div(SumSeq(usable), series.valuesPerPoint)
              [] series.consolidationFunc = "max" -> MaxSeq(usable)
              [] series.consolidationFunc = "min" -> MinSeq(usable)
              [] OTHER -> "Exception: Invalid consolidation function!"

\* TimeSeries.__consolidate
TimeSeries_consolidate(series, values) ==
    LET usable == not_none(values)
    IN IF usable = <<>> THEN Null
       ELSE CASE series.consolidationFunc = "sum" -> SumSeq(usable)
              [] series.consolidationFunc = "average" ->
                     float_div(SumSeq(usable), Len(usable))
              [] series.consolidationFunc = "max" -> MaxSeq(usable)
              [] series.consolidationFunc = "min" -> MinSeq(usable)
              [] OTHER -> "Exception: Invalid consolidation function!"

\* TimeSeries.__consolidatingGenerator, as the list of what it yields: gen is
\* what is left of the raw values, buf the buffer
RECURSIVE consolidatingGenerator(_, _, _)
consolidatingGenerator(series, gen, buf) ==
    IF gen = <<>>
    THEN IF not_none(buf) # <<>>
         THEN <<TimeSeries_consolidate(series, not_none(buf))>>
         ELSE <<Null>>
    ELSE LET filled == Append(buf, Head(gen))
         IN IF Len(filled) = series.valuesPerPoint
            THEN IF not_none(filled) # <<>>
                 THEN <<TimeSeries_consolidate(series, not_none(filled))>>
                      \o consolidatingGenerator(series, Tail(gen), <<>>)
                 ELSE <<Null>>
                      \o consolidatingGenerator(series, Tail(gen), not_none(filled))
            ELSE consolidatingGenerator(series, Tail(gen), filled)

\* list(series): TimeSeries.__iter__
TimeSeries_iter(series) ==
    IF series.valuesPerPoint > 1
    THEN consolidatingGenerator(series, series.values, <<>>)
    ELSE series.values

\* A plausible slip: consolidate stores the consolidated values.
consolidateInPlace(series, valuesPerPoint) ==
    [series EXCEPT !.values =
        TimeSeries_iter([series EXCEPT !.valuesPerPoint = valuesPerPoint]),
                   !.valuesPerPoint = valuesPerPoint]

\* TimeSeries.consolidate
consolidate(series, valuesPerPoint) ==
    [series EXCEPT !.valuesPerPoint = valuesPerPoint]

\* the raw values of a series: None, and samples every average of up to four
\* of which is a whole number
RawValues == {Null, 12, 24}
RECURSIVE ValueSeqs(_)
ValueSeqs(n) ==
    IF n = 0 THEN {<<>>}
    ELSE ValueSeqs(n - 1) \cup
         {Append(vs, v) : vs \in {ws \in ValueSeqs(n - 1) : Len(ws) = n - 1},
                          v \in RawValues}

IdlePipeline ==
    /\ IdleRender
    /\ finderNodes = <<>>
    /\ found = <<>>
    /\ subFetch = <<>>
    /\ fetchOut = [status |-> "none", data |-> NoResult]

InitSeries ==
    /\ IdlePipeline
    /\ pc = "series"
    /\ \E values \in ValueSeqs(MaxLen) \ {<<>>}, func \in ConsolidationFuncs :
           inSeries = <<[TimeSeries("a.b", 0, Len(values), 1, values, "a.b")
                            EXCEPT !.consolidationFunc = func]>>
    /\ inArg = <<>>
    /\ out = <<>>

\* series.consolidate(k)
ConsolidateSeries ==
    /\ \E k \in 1..MaxPerPoint :
           /\ inSeries' = <<consolidate(inSeries[1], k)>>
           /\ inArg' = k
    /\ pc' = "consolidate"
    /\ out' = <<>>
    /\ UNCHANGED <<finderNodes, found, subFetch, fetchOut, renderVars>>

\* list(series)
IterateSeries ==
    /\ out' = TimeSeries_iter(inSeries[1])
    /\ pc' = "iterate"
    /\ UNCHANGED <<finderNodes, found, subFetch, fetchOut, renderVars, inSeries,
                   inArg>>

NextSeries == ConsolidateSeries \/ IterateSeries

SpecSeries == InitSeries /\ [][NextSeries]_vars

(***************************************************************************)
(* Series functions (functions.py): normalize and sumSeries                *)
(***************************************************************************)
\* min(items), max(items)
MinOf(S) == CHOOSE v \in S : \A w \in S : v <= w
MaxOf(S) == CHOOSE v \in S : \A w \in S : v >= w

\* A plausible slip: the larger step instead of the least common multiple.
lcmLarger(a, b) == IF a < b THEN b ELSE a

\* Least common multiple
lcm(a, b) ==
    IF a = b THEN a
    ELSE IF a < b THEN (b \div gcd(b, a)) * a
         ELSE (a \div gcd(a, b)) * b

\* functools.reduce with lcm, over a non-empty list of steps
RECURSIVE reduce_lcm(_)
reduce_lcm(steps) ==
    IF Len(steps) = 1 THEN steps[1]
    ELSE lcm(reduce_lcm(SubSeq(steps, 1, Len(steps) - 1)), steps[Len(steps)])

\* functools.reduce with L1+L2, over a non-empty list of lists
RECURSIVE reduce_concat(_)
reduce_concat(seriesLists) ==
    IF Len(seriesLists) = 1 THEN seriesLists[1]
    ELSE reduce_concat(SubSeq(seriesLists, 1, Len(seriesLists) - 1))
         \o seriesLists[Len(seriesLists)]

\* A plausible slip: end is left at the maximum of the ends.
normalizeUnrounded(seriesLists) ==
    LET seriesList == reduce_concat(seriesLists)
        step == reduce_lcm([i \in 1..Len(seriesList) |-> seriesList[i].step])
        start == MinOf({seriesList[i].start : i \in 1..Len(seriesList)})
        end == MaxOf({seriesList[i].end : i \in 1..Len(seriesList)})
    IN [seriesList |-> [i \in 1..Len(seriesList) |->
                           consolidate(seriesList[i], step \div seriesList[i].step)],
        start |-> start, end |-> end, step |-> step]

\* normalize(seriesLists); the series of the result are the input's objects,
\* consolidated
normalize(seriesLists) ==
    LET seriesList == reduce_concat(seriesLists)
        step == reduce_lcm([i \in 1..Len(seriesList) |-> seriesList[i].step])
        start == MinOf({seriesList[i].start : i \in 1..Len(seriesList)})
        end == MaxOf({seriesList[i].end : i \in 1..Len(seriesList)})
    IN [seriesList |-> [i \in 1..Len(seriesList) |->
                           consolidate(seriesList[i], step \div seriesList[i].step)],
        start |-> start, end |-> end - ((end - start) % step), step |-> step]

\* the input lists as normalize leaves them: s.consolidate(step // s.step)
Normalized(seriesLists) ==
    LET step == normalize(seriesLists).step
    IN [l \in 1..Len(seriesLists) |->
           [i \in 1..Len(seriesLists[l]) |->
               consolidate(seriesLists[l][i], step \div seriesLists[l][i].step)]]

\* path expressions in ascending (sorted) order
ExprOrder == <<"a.*", "a.b">>

\* ','.join(items), as the list of its pieces
RECURSIVE join(_, _)
join(sep, items) ==
    IF items = <<>> THEN <<>>
    ELSE IF Len(items) = 1 THEN items
         ELSE <<Head(items), sep>> \o join(sep, Tail(items))

\* formatPathExpressions(seriesList)
formatPathExpressions(seriesList) ==
    join(",", SelectSeq(ExprOrder, LAMBDA e :
                  \E i \in 1..Len(seriesList) : seriesList[i].pathExpression = e))

\* safeSum = safe(sum)
safeSum(values) ==
    IF not_none(values) = <<>> THEN Null ELSE SumSeq(not_none(values))

\* zip_longest(*seriesList): the rows, a series that has ended filled with None
zip_longest(seriesList) ==
    LET its == [i \in 1..Len(seriesList) |-> TimeSeries_iter(seriesList[i])]
        n == MaxOf({Len(its[i]) : i \in 1..Len(its)})
    IN [r \in 1..n |->
           [i \in 1..Len(its) |-> IF r <= Len(its[i]) THEN its[i][r] ELSE Null]]

\* any(seriesLists)
any(seriesLists) == \E l \in 1..Len(seriesLists) : seriesLists[l] # <<>>

\* A plausible slip: a null sample makes the whole sum null.
sumSeriesStrict(seriesLists) ==
    IF seriesLists = <<>> \/ ~any(seriesLists) THEN <<>>
    ELSE LET n == normalize(seriesLists)
             name == <<"sumSeries(">> \o formatPathExpressions(n.seriesList) \o <<")">>
             rows == zip_longest(n.seriesList)
             values == [r \in 1..Len(rows) |->
                           IF \E i \in 1..Len(rows[r]) : rows[r][i] = Null
                           THEN Null ELSE SumSeq(rows[r])]
         IN <<TimeSeries(name, n.start, n.end, n.step, values, name)>>

\* sumSeries(requestContext, *seriesLists)
sumSeries(seriesLists) ==
    IF seriesLists = <<>> \/ ~any(seriesLists) THEN <<>>
    ELSE LET n == normalize(seriesLists)
             name == <<"sumSeries(">> \o formatPathExpressions(n.seriesList) \o <<")">>
             rows == zip_longest(n.seriesList)
             values == [r \in 1..Len(rows) |-> safeSum(rows[r])]
         IN <<TimeSeries(name, n.start, n.end, n.step, values, name)>>

\* the series a function can be handed
SeriesStarts == {0, 1}
SeriesSteps == {1, 2, 3}
SeriesInputs ==
    {TimeSeries(IF e = "a.b" THEN "a.b" ELSE "a.c", start, start + span, step,
                values, e) :
        start \in SeriesStarts, span \in 2..MaxSpan, step \in SeriesSteps,
        values \in {vs \in ValueSeqs(MaxRow) : vs # <<>> /\ \A i \in 1..Len(vs) : vs[i] # 24},
        e \in {ExprOrder[i] : i \in 1..Len(ExprOrder)}}

\* the ways one or two series are passed as *seriesLists
SeriesListsOf(s1, s2) == {<<<<s1>>>>, <<<<s1, s2>>>>, <<<<s1>>, <<s2>>>>, <<<<>>, <<s2>>>>}

InitNormalize ==
    /\ IdlePipeline
    /\ pc = "call"
    /\ \E s1 \in SeriesInputs, s2 \in SeriesInputs :
           inSeries \in SeriesListsOf(s1, s2)
    /\ inArg = <<>>
    /\ out = <<>>

\* normalize(seriesLists)
Normalize ==
    /\ pc = "call"
    /\ out' = normalize(inSeries)
    /\ inSeries' = Normalized(inSeries)
    /\ pc' = "normalize"
    /\ UNCHANGED <<finderNodes, found, subFetch, fetchOut, renderVars, inArg>>

\* sumSeries(requestContext, *seriesLists)
SumSeries ==
    /\ pc = "call"
    /\ out' = sumSeries(inSeries)
    /\ inSeries' = Normalized(inSeries)
    /\ pc' = "sumSeries"
    /\ UNCHANGED <<finderNodes, found, subFetch, fetchOut, renderVars, inArg>>

NextNormalize == Normalize \/ SumSeries

SpecNormalize == InitNormalize /\ [][NextNormalize]_vars

(***************************************************************************)
(* Template substitution in a path expression (evaluator.py: evaluateTokens)*)
(***************************************************************************)
\* Python values: a str by its characters, numbers, a list
Str(chars) == [type |-> "str", chars |-> chars]
PyInt(n) == [type |-> "int", mantissa |-> n, scale |-> 0]
\* the float mantissa / 10^scale
Float(mantissa, scale) == [type |-> "float", mantissa |-> mantissa, scale |-> scale]
List(items) == [type |-> "list", items |-> items]
ValueError == [type |-> "ValueError"]

Digits == {"1", "2"}
Chars == Digits \cup {"-", ".", "a"}
RECURSIVE Strings(_)
Strings(n) ==
    IF n = 0 THEN {<<>>}
    ELSE Strings(n - 1) \cup
         {Append(w, c) : w \in {v \in Strings(n - 1) : Len(v) = n - 1}, c \in Chars}

\* re.match('^-?[\d.]+$', val)
re_match_number(chars) ==
    LET body == IF chars # <<>> /\ Head(chars) = "-" THEN Tail(chars) ELSE chars
    IN /\ body # <<>>
       /\ \A i \in 1..Len(body) : body[i] \in Digits \cup {"."}

DigitValue(c) == IF c = "1" THEN 1 ELSE 2
RECURSIVE DigitsValue(_)
DigitsValue(ds) ==
    IF ds = <<>> THEN 0
    ELSE 10 * DigitsValue(SubSeq(ds, 1, Len(ds) - 1)) + DigitValue(ds[Len(ds)])

\* float(val) of a str: an optional sign, then digits with at most one point
\* among them and at least one digit; anything else raises ValueError
float(chars) ==
    LET negative == chars # <<>> /\ Head(chars) = "-"
        body == IF negative THEN Tail(chars) ELSE chars
        points == {i \in 1..Len(body) : body[i] = "."}
        digits == SelectSeq(body, LAMBDA c : c \in Digits)
    IN IF \/ digits = <<>>
          \/ Cardinality(points) > 1
          \/ \E i \in 1..Len(body) : body[i] \notin Digits \cup {"."}
       THEN ValueError
       ELSE Float((IF negative THEN -1 ELSE 1) * DigitsValue(digits),
                  IF points = {} THEN 0
                  ELSE Len(body) - (CHOOSE i \in points : TRUE))

\* a path expression by its pieces: text, and markers $name
Marker(name) == [piece |-> "marker", of |-> name]
Text(chars) == [piece |-> "text", of |-> chars]
PathExpressions ==
    {<<Marker("1")>>, <<Marker("name")>>, <<Text(<<"a", ".">>), Marker("1")>>,
     <<Text(<<"a">>)>>}

\* the decimal digits of n >= 0, and of its last `width` places
RECURSIVE DecimalDigits(_)
DecimalDigits(n) ==
    LET digit == <<"0", "1", "2", "3", "4", "5", "6", "7", "8", "9">>[(n % 10) + 1]
    IN IF n < 10 THEN <<digit>> ELSE Append(DecimalDigits(n \div 10), digit)
RECURSIVE Places(_, _)
Places(n, width) ==
    IF width = 0 THEN <<>>
    ELSE Append(Places(n \div 10, width - 1), DecimalDigits(n % 10)[1])

\* str(val), as a piece of text: a str is itself, an int its digits, a float its
\* shortest decimal form (every float met here has one of scale places)
str(val) ==
    LET magnitude == IF val.mantissa < 0 THEN 0 - val.mantissa ELSE val.mantissa
        sign == IF val.mantissa < 0 THEN <<"-">> ELSE <<>>
        unit == 10 ^ val.scale
    IN CASE val.type = "str" -> Text(val.chars)
         [] val.type = "int" -> Text(sign \o DecimalDigits(magnitude))
         [] val.type = "float" ->
                Text(sign \o DecimalDigits(magnitude \div unit) \o <<".">>
                     \o (IF val.scale = 0 THEN <<"0">>
                         ELSE Places(magnitude % unit, val.scale)))
         [] OTHER -> Text(<<"[", "]">>)

\* expression.replace('$' + name, str(val))
replace(expression, name, val) ==
    [i \in 1..Len(expression) |->
        IF expression[i] = Marker(name) THEN str(val) ELSE expression[i]]

\* the names of a replacements dict, in the order they are iterated
NameOrder == <<"1", "name">>

\* evaluateTokens, the pathExpression branch with replacements: the loop over
\* the names from the k-th on, then the lookup
RECURSIVE evaluatePathExpression(_, _, _, _)
evaluatePathExpression(expression, replacements, k, ds) ==
    IF k > Len(NameOrder)
    THEN LET r == get_series_list(ds, expression)
         IN [status |-> r.status, value |-> List(r.value)]
    ELSE LET name == NameOrder[k]
         IN IF name \notin DOMAIN replacements
            THEN evaluatePathExpression(expression, replacements, k + 1, ds)
            ELSE LET val == replacements[name]
                 IN IF expression = <<Marker(name)>>
                    THEN IF val.type # "str"
                         THEN [status |-> "ok", value |-> val]
                         ELSE IF re_match_number(val.chars)
                              THEN IF float(val.chars) = ValueError
                                   THEN [status |-> "ValueError", value |-> ValueError]
                                   ELSE [status |-> "ok", value |-> float(val.chars)]
                              ELSE [status |-> "ok", value |-> val]
                    ELSE evaluatePathExpression(replace(expression, name, val),
                                                replacements, k + 1, ds)

\* the values a template argument can be bound to
BoundValues ==
    {Str(w) : w \in Strings(MaxChars)} \cup {PyInt(12), Float(15, 1), List(<<>>)}

InitTemplate ==
    /\ IdlePipeline
    /\ pc = "template"
    /\ inSeries = <<>>
    /\ \E expression \in PathExpressions, name \in {"1", "name"}, val \in BoundValues :
           inArg = [expression |-> expression, replacements |-> (name :> val)]
    /\ out = <<>>

\* evaluateTokens(requestContext, tokens, data_store, replacements) on a
\* pathExpression token
EvaluatePathExpression ==
    /\ pc = "template"
    /\ out' = evaluatePathExpression(inArg.expression, inArg.replacements, 1,
                                     NewDataStore)
    /\ pc' = "evaluated"
    /\ UNCHANGED <<finderNodes, found, subFetch, fetchOut, renderVars, inSeries,
                   inArg>>

NextTemplate == EvaluatePathExpression

SpecTemplate == InitTemplate /\ [][NextTemplate]_vars

(***************************************************************************)
(* Percentiles (functions.py: _getPercentile), non-interpolated            *)
(***************************************************************************)
\* sorted(values) of numbers: a value goes after the smaller ones and after
\* the equal ones that precede it
sorted(values) ==
    LET place(i) ==
            Cardinality({j \in 1..Len(values) :
                            \/ values[j] < values[i]
                            \/ values[j] = values[i] /\ j <= i})
    IN [k \in 1..Len(values) |->
           values[CHOOSE i \in 1..Len(values) : place(i) = k]]

\* (n/100.0) * m in double arithmetic is not always the exact product: of the
\* (n, m) met here 0.28 * 25 is 7.000000000000001, every other product is exact
\* or as close to the exact one as not to change its whole part
FloatProductAbove(n, m) == n = 28 /\ m = 25

\* int(fractionalRank) and int(math.ceil(rankFraction)) for
\* fractionalRank = (n/100.0) * m: int() cuts towards zero, so that below zero
\* the fraction left is in (-1, 0] and its ceiling is 0
IntRank(n, m) ==
    IF n * m >= 0 THEN (n * m) \div 100 ELSE 0 - ((0 - n * m) \div 100)
CeilRankFraction(n, m) ==
    IF n * m < 0 THEN 0
    ELSE IF (n * m) % 100 # 0 \/ FloatProductAbove(n, m) THEN 1 ELSE 0

\* A plausible slip: the fractional rank is cut, not rounded up.
_getPercentileFloor(points, n) ==
    LET sortedPoints == sorted(not_none(points))
        rank == IntRank(n, Len(sortedPoints) + 1)
    IN IF Len(sortedPoints) = 0 THEN Null
       ELSE IF rank = 0 THEN sortedPoints[1]
       ELSE IF rank - 1 = Len(sortedPoints) THEN sortedPoints[Len(sortedPoints)]
       ELSE PyGet(sortedPoints, rank - 1)

\* _getPercentile(points, n), interpolate=False
_getPercentile(points, n) ==
    LET sortedPoints == sorted(not_none(points))
        rank == IntRank(n, Len(sortedPoints) + 1)
                + CeilRankFraction(n, Len(sortedPoints) + 1)
    IN IF Len(sortedPoints) = 0 THEN Null
       ELSE IF rank = 0 THEN sortedPoints[1]
       ELSE IF rank - 1 = Len(sortedPoints) THEN sortedPoints[Len(sortedPoints)]
       ELSE PyGet(sortedPoints, rank - 1)

\* range(a, b + 1)
Range(a, b) == [i \in 1..(b - a + 1) |-> a + i - 1]

\* the samples and the percentages asked
PointValues == {Null, 12, 24, 36}
RECURSIVE PointSeqs(_)
PointSeqs(n) ==
    IF n = 0 THEN {<<>>}
    ELSE PointSeqs(n - 1) \cup
         {Append(ps, v) : ps \in {qs \in PointSeqs(n - 1) : Len(qs) = n - 1},
                          v \in PointValues}
Percentages == {0, 28, 30, 50, 100}

InitPercentile ==
    /\ IdlePipeline
    /\ pc = "percentile"
    /\ inSeries = <<>>
    /\ \E points \in PointSeqs(MaxCount) \cup {Range(1, 24), Range(1, 100)},
          n \in Percentages :
           inArg = [points |-> points, n |-> n]
    /\ out = <<>>

\* _getPercentile(points, n)
GetPercentile ==
    /\ pc = "percentile"
    /\ out' = <<_getPercentile(inArg.points, inArg.n)>>
    /\ pc' = "returned"
    /\ UNCHANGED <<finderNodes, found, subFetch, fetchOut, renderVars, inSeries,
                   inArg>>

NextPercentile == GetPercentile

SpecPercentile == InitPercentile /\ [][NextPercentile]_vars

(***************************************************************************)
(* percentileOfSeries and nPercentile                                      *)
(***************************************************************************)
Return(value) == [status |-> "ok", value |-> value]
Raise(exception) == [status |-> exception, value |-> <<>>]

\* '%g' % n
format_g(n) ==
    CASE n = -1 -> "-1"
      [] n = 0 -> "0"
      [] n = 50 -> "50"
      [] OTHER -> "100"

\* percentileOfSeries(requestContext, seriesList, n, interpolate=False)
percentileOfSeries(seriesList, n) ==
    IF n <= 0 THEN Raise("ValueError")
    ELSE IF seriesList = <<>> THEN Return(<<>>)
    ELSE LET name == <<"percentileOfSeries(", seriesList[1].pathExpression, ",",
                       format_g(n), ")">>
             norm == normalize(<<seriesList>>)
             rows == zip_longest(norm.seriesList)
             values == [r \in 1..Len(rows) |-> _getPercentile(rows[r], n)]
         IN Return(<<TimeSeries(name, norm.start, norm.end, norm.step,
                                  values, name)>>)

\* the body of nPercentile's loop for one series; <<>> when it is skipped
nPercentileOf(s, n) ==
    LET s_copy == sorted(not_none(TimeSeries_iter(s)))
        perc_val == _getPercentile(s_copy, n)
        name == <<"nPercentile(", s.name, ", ", format_g(n), ")">>
        point_count == (s.end - s.start) \div s.step
    IN IF s_copy = <<>> \/ perc_val = Null THEN <<>>
       ELSE <<TimeSeries(name, s.start, s.end, s.step,
                         [i \in 1..point_count |-> perc_val], name)>>

\* nPercentile(requestContext, seriesList, n): "assert n" stops a zero only
nPercentile(seriesList, n) ==
    IF n = 0 THEN Raise("AssertionError")
    ELSE Return(reduce_concat([i \in 1..Len(seriesList) |->
                                    nPercentileOf(seriesList[i], n)]))

\* the series and percentiles the two functions are called with
PercentileSeries ==
    {TimeSeries(IF e = "a.b" THEN "a.b" ELSE "a.c", 0, Len(values), 1, values, e) :
        values \in ValueSeqs(MaxRow) \ {<<>>},
        e \in {ExprOrder[i] : i \in 1..Len(ExprOrder)}}
PercentileArgs == {-1, 0, 50}

InitPercentileCall ==
    /\ IdlePipeline
    /\ pc = "call"
    /\ \E s1 \in PercentileSeries, s2 \in PercentileSeries :
           inSeries \in {<<s1>>, <<s1, s2>>}
    /\ \E n \in PercentileArgs : inArg = [n |-> n]
    /\ out = <<>>

PercentileOfSeries ==
    /\ pc = "call"
    /\ out' = percentileOfSeries(inSeries, inArg.n)
    /\ pc' = "percentileOfSeries"
    /\ UNCHANGED <<finderNodes, found, subFetch, fetchOut, renderVars, inSeries,
                   inArg>>

NPercentile ==
    /\ pc = "call"
    /\ out' = nPercentile(inSeries, inArg.n)
    /\ pc' = "nPercentile"
    /\ UNCHANGED <<finderNodes, found, subFetch, fetchOut, renderVars, inSeries,
                   inArg>>

NextPercentileCall == PercentileOfSeries \/ NPercentile

SpecPercentileCall == InitPercentileCall /\ [][NextPercentileCall]_vars

(***************************************************************************)
(* finders: expand_braces and match_entries.  A string is the list of its  *)
(* characters.                                                             *)
(***************************************************************************)
\* EXPAND_BRACES_RE = .*(\{.*?[^\\]?\}): the ways group 1 matches from the "{"
\* at i, ".*?" taking k characters and "[^\\]?" one (opt = 1) or none
GroupMatches(pattern, i) ==
    {m \in [k : 0..Len(pattern), opt : {0, 1}] :
        LET close == i + m.k + m.opt + 1
        IN /\ close <= Len(pattern)
           /\ pattern[close] = "}"
           /\ m.opt = 1 => pattern[i + m.k + 1] # "\\"}

\* the match the regex engine settles on: the lazy ".*?" as short as it can be,
\* and for that length the optional character taken if it can be
GroupEnd(pattern, i) ==
    LET order(m) == 2 * m.k + (1 - m.opt)
        first == CHOOSE m \in GroupMatches(pattern, i) :
                     \A o \in GroupMatches(pattern, i) : order(m) <= order(o)
    IN i + first.k + first.opt + 1

\* A plausible slip: the leading ".*" is lazy, so group 1 starts at the first "{".
EXPAND_BRACES_RE_search_first(pattern) ==
    LET starts == {i \in 1..Len(pattern) :
                      pattern[i] = "{" /\ GroupMatches(pattern, i) # {}}
    IN IF starts = {} THEN [matched |-> FALSE, v1 |-> 0, v2 |-> 0]
       ELSE [matched |-> TRUE, v1 |-> MinOf(starts),
             v2 |-> GroupEnd(pattern, MinOf(starts))]

\* EXPAND_BRACES_RE.search(pattern): the greedy ".*" leaves group 1 the last "{"
\* it can match from; span is match.span(1), counted from 1 and inclusive
EXPAND_BRACES_RE_search(pattern) ==
    LET starts == {i \in 1..Len(pattern) :
                      pattern[i] = "{" /\ GroupMatches(pattern, i) # {}}
    IN IF starts = {} THEN [matched |-> FALSE, v1 |-> 0, v2 |-> 0]
       ELSE [matched |-> TRUE, v1 |-> MaxOf(starts),
             v2 |-> GroupEnd(pattern, MaxOf(starts))]

\* s.strip('{}')
strip_braces(s) ==
    LET kept == {i \in 1..Len(s) : s[i] \notin {"{", "}"}}
    IN IF kept = {} THEN <<>> ELSE SubSeq(s, MinOf(kept), MaxOf(kept))

\* s.split(',')
RECURSIVE split(_)
split(s) ==
    LET commas == {i \in 1..Len(s) : s[i] = ","}
    IN IF commas = {} THEN <<s>>
       ELSE <<SubSeq(s, 1, MinOf(commas) - 1)>>
            \o split(SubSeq(s, MinOf(commas) + 1, Len(s)))

remove_outer_braces(s) ==
    IF s[1] = "{" /\ s[Len(s)] = "}" THEN SubSeq(s, 2, Len(s) - 1) ELSE s

\* pattern.replace('\\}', '}')
RECURSIVE replace_escaped(_)
replace_escaped(s) ==
    IF s = <<>> THEN <<>>
    ELSE IF Len(s) >= 2 /\ s[1] = "\\" /\ s[2] = "}"
         THEN <<"}">> \o replace_escaped(SubSeq(s, 3, Len(s)))
         ELSE <<Head(s)>> \o replace_escaped(Tail(s))

\* expand_braces(pattern), as the set res it collects
RECURSIVE expand_braces(_)
expand_braces(pattern) ==
    LET match == EXPAND_BRACES_RE_search(pattern)
        sub == SubSeq(pattern, match.v1, match.v2)
        before == SubSeq(pattern, 1, match.v1 - 1)
        after == SubSeq(pattern, match.v2 + 1, Len(pattern))
        pats == split(strip_braces(sub))
    IN IF ~match.matched THEN {replace_escaped(pattern)}
       ELSE IF \E i \in 1..Len(sub) : sub[i] = ","
            THEN UNION {expand_braces(before \o pats[i] \o after) :
                           i \in 1..Len(pats)}
            ELSE expand_braces(before \o remove_outer_braces(sub) \o after)

\* list(res): a set is listed in an order the code does not choose
Listings(res) ==
    {l \in [1..Cardinality(res) -> res] :
        \A i, j \in 1..Cardinality(res) : l[i] = l[j] => i = j}

\* the end of the character class that opens before rest, 0 when it never closes
ClassEnd(rest) ==
    LET j1 == IF Len(rest) >= 1 /\ rest[1] = "!" THEN 2 ELSE 1
        j2 == IF Len(rest) >= j1 /\ rest[j1] = "]" THEN j1 + 1 ELSE j1
        closes == {j \in j2..Len(rest) : rest[j] = "]"}
    IN IF closes = {} THEN 0 ELSE MinOf(closes)

\* fnmatch.fnmatch(name, pat) on a POSIX system (os.path.normcase changes nothing)
RECURSIVE fnmatch(_, _)
fnmatch(name, pat) ==
    IF pat = <<>> THEN name = <<>>
    ELSE LET c == Head(pat)
             rest == Tail(pat)
             j == ClassEnd(rest)
             stuff == SubSeq(rest, 1, j - 1)
             negated == stuff[1] = "!"
             members == {stuff[k] : k \in (IF negated THEN 2 ELSE 1)..Len(stuff)}
         IN CASE c = "*" ->
                     \/ fnmatch(name, rest)
                     \/ name # <<>> /\ fnmatch(Tail(name), pat)
              [] c = "?" -> name # <<>> /\ fnmatch(Tail(name), rest)
              [] c = "[" /\ j > 0 ->
                     /\ name # <<>>
                     /\ (Head(name) \in members) # negated
                     /\ fnmatch(Tail(name), SubSeq(rest, j + 1, Len(rest)))
              [] OTHER -> name # <<>> /\ Head(name) = c /\ fnmatch(Tail(name), rest)

\* fnmatch.filter(entries, variant)
fnmatch_filter(entries, variant) ==
    SelectSeq(entries, LAMBDA entry : fnmatch(entry, variant))

\* A plausible slip: every matching entry is passed on, duplicates included.
_deduplicate_none(entries) == entries

\* _deduplicate(entries)
RECURSIVE _deduplicate(_)
_deduplicate(entries) ==
    IF entries = <<>> THEN <<>>
    ELSE LET front == _deduplicate(SubSeq(entries, 1, Len(entries) - 1))
             entry == entries[Len(entries)]
         IN IF \E i \in 1..Len(front) : front[i] = entry THEN front
            ELSE Append(front, entry)

\* match_entries(entries, pattern), variants being list(expand_braces(pattern))
match_entries(entries, variants) ==
    _deduplicate(reduce_concat([i \in 1..Len(variants) |->
                                   fnmatch_filter(entries, variants[i])]))

\* the patterns expand_braces is handed
BraceChars == {"a", ",", "{", "}", "\\"}
RECURSIVE Words(_, _)
Words(chars, n) ==
    IF n = 0 THEN {<<>>}
    ELSE Words(chars, n - 1) \cup
         {Append(w, c) : w \in {v \in Words(chars, n - 1) : Len(v) = n - 1},
                         c \in chars}
NestedPattern == <<"a", "{", "b", ",", "c", "{", "d", ",", "e", "}", "}">>
EscapedPattern == <<"{", "a", ",", "b", "\\", "}", "}">>
BracePatterns == Words(BraceChars, MaxPattern) \cup {NestedPattern, EscapedPattern}

InitExpand ==
    /\ IdlePipeline
    /\ pc = "call"
    /\ inSeries = <<>>
    /\ \E pattern \in BracePatterns : inArg = [pattern |-> pattern]
    /\ out = <<>>

ExpandBraces ==
    /\ pc = "call"
    /\ out' = expand_braces(inArg.pattern)
    /\ pc' = "expand_braces"
    /\ UNCHANGED <<finderNodes, found, subFetch, fetchOut, renderVars, inSeries,
                   inArg>>

NextExpand == ExpandBraces

SpecExpand == InitExpand /\ [][NextExpand]_vars

\* the names and patterns match_entries is handed
EntryNames == {<<"a">>, <<"A">>, <<"b">>, <<"a", "b">>}
GlobChars == {"a", "*", "?", "[", "]", "!", "{"}
GlobPatterns ==
    Words(GlobChars, MaxGlob)
        \cup {<<"[", "!", "a", "]">>, <<"[", "a", "b", "]">>,
              <<"a", "[", "!", "a", "]">>, <<"{", "a", ",", "b", "}">>,
              <<"{", "b", ",", "a", "}">>, <<"{", "a", ",", "*", "}">>}
EntryLists == UNION {[1..n -> EntryNames] : n \in 0..MaxEntries}

InitMatch ==
    /\ IdlePipeline
    /\ pc = "call"
    /\ inSeries \in EntryLists
    /\ \E pattern \in GlobPatterns : inArg = [pattern |-> pattern]
    /\ out = <<>>

MatchEntries ==
    /\ pc = "call"
    /\ \E variants \in Listings(expand_braces(inArg.pattern)) :
           out' = match_entries(inSeries, variants)
    /\ pc' = "match_entries"
    /\ UNCHANGED <<finderNodes, found, subFetch, fetchOut, renderVars, inSeries,
                   inArg>>

NextMatch == MatchEntries

SpecMatch == InitMatch /\ [][NextMatch]_vars

(***************************************************************************)
(* Templates in the two passes (evaluator.py: pathsFromTokens and          *)
(* evaluateTokens)                                                         *)
(***************************************************************************)
Number(val) == [type |-> "number", number |-> val]
String(chars) == [type |-> "string", string |-> chars]
CallOf(funcname, args) == [type |-> "call", funcname |-> funcname, args |-> args]
Kwarg(argname, arg) == [argname |-> argname, args |-> <<arg>>]
Template(inner, args, kwargs) ==
    [type |-> "template", template |-> inner, args |-> args, kwargs |-> kwargs]

\* dict(pairs) and arglist.update(other): a later binding of a name wins
RECURSIVE dict(_)
dict(pairs) ==
    IF pairs = <<>> THEN <<>>
    ELSE (pairs[Len(pairs)][1] :> pairs[Len(pairs)][2])
         @@ dict(SubSeq(pairs, 1, Len(pairs) - 1))
update(arglist, other) == other @@ arglist

\* str(i + 1) for the i-th positional argument, i counted from 0
PositionName(i) == <<"1", "2">>[i + 1]

\* the template arguments that are string literals, as (name, value) pairs
StringBindings(tokens) ==
    LET kwargs == SelectSeq(tokens.kwargs, LAMBDA kwarg : kwarg.args[1].type = "string")
        args == SelectSeq([i \in 1..Len(tokens.args) |-> <<i, tokens.args[i]>>],
                          LAMBDA arg : arg[2].type = "string")
    IN [k \in 1..Len(kwargs) |-> <<kwargs[k].argname, Str(kwargs[k].args[1].string)>>]
       \o [k \in 1..Len(args) |->
              <<PositionName(args[k][1] - 1), Str(args[k][2].string)>>]

\* a literal token evaluated: int(...) or float(...) of a number, the text of a string
Literal(token) ==
    IF token.type = "number" THEN token.number ELSE Str(token.string)

\* every template argument evaluated, as (name, value) pairs
EvaluatedBindings(tokens) ==
    [k \in 1..Len(tokens.kwargs) |->
        <<tokens.kwargs[k].argname, Literal(tokens.kwargs[k].args[1])>>]
    \o [i \in 1..Len(tokens.args) |-> <<PositionName(i - 1), Literal(tokens.args[i])>>]

\* requestContext['template'] where the context has one
Overrides(requestContext) ==
    IF "template" \in DOMAIN requestContext THEN requestContext["template"] ELSE <<>>

\* pathsFromTokens, the pathExpression branch: every bound name replaced
RECURSIVE replaceBound(_, _, _)
replaceBound(expression, replacements, k) ==
    IF k > Len(NameOrder) THEN expression
    ELSE IF NameOrder[k] \notin DOMAIN replacements
         THEN replaceBound(expression, replacements, k + 1)
         ELSE replaceBound(replace(expression, NameOrder[k],
                                   replacements[NameOrder[k]]),
                           replacements, k + 1)

\* pathsFromTokens(requestContext, tokens, replacements)
RECURSIVE pathsFromTokensBound(_, _, _)
RECURSIVE PathsFromArgsBound(_, _, _)
PathsFromArgsBound(requestContext, args, replacements) ==
    IF args = <<>> THEN [status |-> "ok", value |-> <<>>]
    ELSE LET r == pathsFromTokensBound(requestContext, Head(args), replacements)
             rest == PathsFromArgsBound(requestContext, Tail(args), replacements)
         IN IF r.status # "ok" THEN r
            ELSE IF rest.status # "ok" THEN rest
                 ELSE [status |-> "ok", value |-> r.value \o rest.value]
pathsFromTokensBound(requestContext, tokens, replacements) ==
    CASE tokens.type = "template" ->
             pathsFromTokensBound(requestContext, tokens.template,
                                  update(dict(StringBindings(tokens)),
                                         Overrides(requestContext)))
      [] tokens.type = "pathExpression" ->
             [status |-> "ok",
              value |-> <<replaceBound(tokens.expr, replacements, 1)>>]
      [] tokens.type = "call" ->
             IF tokens.funcname = "template"
             THEN [status |-> "ValueError", value |-> <<>>]
             ELSE PathsFromArgsBound(requestContext, tokens.args, replacements)
      [] OTHER -> [status |-> "ok", value |-> <<>>]

\* evaluateTokens, the pathExpression branch: the expression handed to
\* data_store.get_series_list, none when a value is returned instead
RECURSIVE lookedUp(_, _, _)
lookedUp(expression, replacements, k) ==
    IF k > Len(NameOrder) THEN <<expression>>
    ELSE IF NameOrder[k] \notin DOMAIN replacements
         THEN lookedUp(expression, replacements, k + 1)
         ELSE IF expression = <<Marker(NameOrder[k])>> THEN <<>>
              ELSE lookedUp(replace(expression, NameOrder[k],
                                    replacements[NameOrder[k]]),
                            replacements, k + 1)

\* evaluateTokens(requestContext, tokens, data_store, replacements), by the
\* expressions it looks up in the data store, in the order of the lookups
RECURSIVE evaluateTokensBound(_, _, _)
RECURSIVE EvaluateArgsBound(_, _, _)
EvaluateArgsBound(requestContext, args, replacements) ==
    IF args = <<>> THEN [status |-> "ok", value |-> <<>>]
    ELSE LET r == evaluateTokensBound(requestContext, Head(args), replacements)
             rest == EvaluateArgsBound(requestContext, Tail(args), replacements)
         IN IF r.status # "ok" THEN r
            ELSE IF rest.status # "ok"
                 THEN [status |-> rest.status, value |-> r.value \o rest.value]
                 ELSE [status |-> "ok", value |-> r.value \o rest.value]
evaluateTokensBound(requestContext, tokens, replacements) ==
    CASE tokens.type = "template" ->
             evaluateTokensBound(requestContext, tokens.template,
                                 update(dict(EvaluatedBindings(tokens)),
                                        Overrides(requestContext)))
      [] tokens.type = "pathExpression" ->
             [status |-> "ok", value |-> lookedUp(tokens.expr, replacements, 1)]
      [] tokens.type = "call" ->
             IF tokens.funcname = "template"
             THEN [status |-> "ValueError", value |-> <<>>]
             ELSE EvaluateArgsBound(requestContext, tokens.args, replacements)
      [] OTHER -> [status |-> "ok", value |-> <<>>]

\* the targets the two passes are run on, and the request contexts
TemplateExpressions ==
    {<<Text(<<"a", ".">>), Marker("1")>>, <<Marker("1")>>,
     <<Text(<<"a", ".">>), Marker("name")>>, <<Text(<<"a", ".", "b">>)>>,
     <<Text(<<"a", ".">>), Marker("1"), Text(<<".">>), Marker("name")>>}
TemplateBodies ==
    {PathExpression(e) : e \in TemplateExpressions}
        \cup {CallOf("group", <<PathExpression(<<Text(<<"a", ".">>), Marker("1")>>),
                              PathExpression(<<Text(<<"a", ".", "b">>)>>)>>)}
TemplateArgs ==
    {<<>>, <<Number(PyInt(12))>>, <<Number(Float(15, 1))>>,
     <<String(<<"x">>)>>}
TemplateKwargs ==
    {<<>>, <<Kwarg("name", Number(PyInt(12)))>>,
     <<Kwarg("name", String(<<"x">>))>>}
TemplateTokens ==
    TemplateBodies
        \cup {Template(inner, args, kwargs) :
                 inner \in TemplateBodies, args \in TemplateArgs,
                 kwargs \in TemplateKwargs}
RequestContexts ==
    {<<>>, "template" :> <<>>, "template" :> ("1" :> Str(<<"y">>)),
     "template" :> ("name" :> Str(<<"y">>))}

InitPasses ==
    /\ IdlePipeline
    /\ pc = "call"
    /\ inSeries = <<>>
    /\ \E tokens \in TemplateTokens, requestContext \in RequestContexts :
           inArg = [tokens |-> tokens, requestContext |-> requestContext]
    /\ out = <<>>

\* pass 1: paths = list(pathsFromTokens(requestContext, tokens))
PathsFromTokens ==
    /\ pc = "call"
    /\ out' = [paths |-> pathsFromTokensBound(inArg.requestContext, inArg.tokens, <<>>),
               lookups |-> [status |-> "none", value |-> <<>>]]
    /\ pc' = "collected"
    /\ UNCHANGED <<finderNodes, found, subFetch, fetchOut, renderVars, inSeries,
                   inArg>>

\* pass 2: evaluateTokens(requestContext, tokens, data_store)
EvaluateTokens ==
    /\ pc = "collected"
    /\ out.paths.status = "ok"
    /\ out' = [out EXCEPT !.lookups =
                  evaluateTokensBound(inArg.requestContext, inArg.tokens, <<>>)]
    /\ pc' = "evaluated"
    /\ UNCHANGED <<finderNodes, found, subFetch, fetchOut, renderVars, inSeries,
                   inArg>>

NextPasses == PathsFromTokens \/ EvaluateTokens

SpecPasses == InitPasses /\ [][NextPasses]_vars

(***************************************************************************)
(* _fetchWithBootstrap (functions.py)                                      *)
(***************************************************************************)
\* a call pathsFromTarget(*args) of the function pathsFromTarget(requestContext,
\* target): Python raises TypeError unless two arguments are passed
CallPathsFromTarget(args) ==
    IF Len(args) # 2 THEN [status |-> "TypeError", value |-> <<>>]
    ELSE [status |-> "ok", value |-> <<args[2]>>]

\* lines 2069-2073: the paths to fetch, bootstrapList being still empty
RECURSIVE BootstrapPaths(_)
BootstrapPaths(seriesList) ==
    IF seriesList = <<>> THEN [status |-> "ok", value |-> <<>>]
    ELSE LET r == CallPathsFromTarget(<<Head(seriesList).pathExpression>>)
             rest == BootstrapPaths(Tail(seriesList))
         IN IF r.status # "ok" THEN r
            ELSE IF rest.status # "ok" THEN rest
                 ELSE [status |-> "ok", value |-> r.value \o rest.value]

\* lines 2078-2086: evaluateTarget once per path expression not yet in
\* bootstrapList; `window` gives what a path expression evaluates to in the
\* bootstrap period
RECURSIVE BootstrapList(_, _, _)
BootstrapList(seriesList, window, bootstrapList) ==
    IF seriesList = <<>> THEN bootstrapList
    ELSE IF \E i \in 1..Len(bootstrapList) :
                bootstrapList[i].pathExpression = Head(seriesList).pathExpression
         THEN BootstrapList(Tail(seriesList), window, bootstrapList)
         ELSE BootstrapList(Tail(seriesList), window,
                            bootstrapList \o window[Head(seriesList).pathExpression])

\* lines 2089-2103: one new series, from a pair of zip_longest (the side that
\* ran out is None, here the empty list); `series` is what the loop before left
\* in the variable, the last series of the list.  With unequal steps ratio is a
\* float, and a list times a float raises TypeError
NewSeries(bootstraps, originals, series) ==
    IF bootstraps = <<>> \/ originals = <<>> THEN Raise("AttributeError")
    ELSE LET bootstrap == bootstraps[1]
             original == originals[1]
         IN IF bootstrap.step # original.step /\ TimeSeries_iter(bootstrap) # <<>>
            THEN Raise("TypeError")
            ELSE Return(TimeSeries(original.name, bootstrap.start, original.end,
                                   original.step,
                                   (IF bootstrap.step # original.step THEN <<>>
                                    ELSE TimeSeries_iter(bootstrap))
                                       \o TimeSeries_iter(original),
                                   series.pathExpression))

\* lines 2088-2105: zip_longest(bootstrapList, seriesList), up to the first raise
RECURSIVE NewSeriesList(_, _, _, _)
NewSeriesList(bootstrapList, seriesList, series, done) ==
    IF bootstrapList = <<>> /\ seriesList = <<>> THEN Return(done)
    ELSE LET r == NewSeries(SubSeq(bootstrapList, 1, 1), SubSeq(seriesList, 1, 1),
                            series)
         IN IF r.status # "ok" THEN r
            ELSE NewSeriesList(IF bootstrapList = <<>> THEN <<>> ELSE Tail(bootstrapList),
                               IF seriesList = <<>> THEN <<>> ELSE Tail(seriesList),
                               series, Append(done, r.value))

\* _fetchWithBootstrap(requestContext, seriesList, **delta_kwargs)
_fetchWithBootstrap(window, seriesList) ==
    LET paths == BootstrapPaths(seriesList)
    IN IF paths.status # "ok" THEN Raise(paths.status)
       ELSE NewSeriesList(BootstrapList(seriesList, window, <<>>), seriesList,
                          seriesList[Len(seriesList)], <<>>)

\* what each path expression evaluates to in the bootstrap period
BootstrapWindows ==
    {[e \in {"a.b", "a.*"} |->
         IF e = "a.b" THEN <<TimeSeries("a.b", 0 - Len(values), 0, 1, values, e)>>
         ELSE <<TimeSeries("a.c", 0 - Len(values), 0, 1, values, e)>>] :
        values \in {<<36>>, <<Null, 36>>}}

InitBootstrap ==
    /\ IdlePipeline
    /\ pc = "call"
    /\ \E s1 \in PercentileSeries, s2 \in PercentileSeries :
           inSeries \in {<<>>, <<s1>>, <<s1, s2>>}
    /\ \E window \in BootstrapWindows : inArg = [window |-> window]
    /\ out = <<>>

FetchWithBootstrap ==
    /\ pc = "call"
    /\ out' = _fetchWithBootstrap(inArg.window, inSeries)
    /\ pc' = "_fetchWithBootstrap"
    /\ UNCHANGED <<finderNodes, found, subFetch, fetchOut, renderVars, inSeries,
                   inArg>>

NextBootstrap == FetchWithBootstrap

SpecBootstrap == InitBootstrap /\ [][NextBootstrap]_vars

(***************************************************************************)
(* stacked (functions.py)                                                  *)
(***************************************************************************)
\* the inner loop of stacked over range(len(series)), from index i on
RECURSIVE StackValues(_, _, _, _)
StackValues(values, i, totalStack, newValues) ==
    IF i > Len(values) THEN [totalStack |-> totalStack, newValues |-> newValues]
    ELSE LET grown == IF Len(totalStack) < i THEN Append(totalStack, 0)
                      ELSE totalStack
             added == [grown EXCEPT ![i] = @ + values[i]]
         IN IF values[i] # Null
            THEN StackValues(values, i + 1, added, Append(newValues, added[i]))
            ELSE StackValues(values, i + 1, grown, Append(newValues, Null))

\* the loop of stacked over seriesLists
RECURSIVE StackSeries(_, _, _, _)
StackSeries(seriesLists, stackName, totalStack, results) ==
    IF seriesLists = <<>> THEN [totalStack |-> totalStack, results |-> results]
    ELSE LET series == Head(seriesLists)
             r == StackValues(series.values, 1, totalStack, <<>>)
             newName == IF stackName = "__DEFAULT__"
                        THEN <<"stacked(">> \o series.name \o <<")">>
                        ELSE series.name
             newSeries == TimeSeries(newName, series.start, series.end,
                                     series.step, r.newValues, newName)
                          @@ [options |-> [stacked |-> TRUE]]
         IN StackSeries(Tail(seriesLists), stackName, r.totalStack,
                        Append(results, newSeries))

\* requestContext['totalStack'], an empty dict where the context has none yet
TotalStacks(requestContext) ==
    IF "totalStack" \in DOMAIN requestContext THEN requestContext["totalStack"]
    ELSE <<>>

\* A plausible slip: every call starts a new total.
stackedAnew(requestContext, seriesLists, stackName) ==
    LET r == StackSeries(seriesLists, stackName, <<>>, <<>>)
    IN [results |-> r.results,
        requestContext |->
            ("totalStack" :> ((stackName :> r.totalStack) @@ TotalStacks(requestContext)))
                @@ requestContext]

\* stacked(requestContext, seriesLists, stackName): what it returns, and the
\* request context as it leaves it
stacked(requestContext, seriesLists, stackName) ==
    LET totalStack == IF stackName \in DOMAIN TotalStacks(requestContext)
                      THEN TotalStacks(requestContext)[stackName]
                      ELSE <<>>
        r == StackSeries(seriesLists, stackName, totalStack, <<>>)
    IN [results |-> r.results,
        requestContext |->
            ("totalStack" :> ((stackName :> r.totalStack) @@ TotalStacks(requestContext)))
                @@ requestContext]

\* the series handed to stacked, and the stack names
StackInputs ==
    {TimeSeries(<<name>>, 0, Len(values), 1, values, name) :
        name \in {"a.b"},
        values \in {vs \in ValueSeqs(MaxRow) :
                       vs # <<>> /\ \A i \in 1..Len(vs) : vs[i] # 24}}
StackNames == {"__DEFAULT__", "tx"}

\* inSeries lists every series handed to stacked so far with its stack name
InitStacked ==
    /\ IdlePipeline
    /\ pc = "call"
    /\ inSeries = <<>>
    /\ \E requestContext \in {<<>>, "totalStack" :> <<>>} :
           inArg = [requestContext |-> requestContext, calls |-> 0]
    /\ out = <<>>

Stacked ==
    /\ pc \in {"call", "stacked"}
    /\ inArg.calls < MaxCalls
    /\ \E s1 \in StackInputs, s2 \in StackInputs, stackName \in StackNames :
           \E seriesLists \in {<<s1>>, <<s1, s2>>} :
               LET r == stacked(inArg.requestContext, seriesLists, stackName)
               IN /\ out' = r.results
                  /\ inArg' = [requestContext |-> r.requestContext,
                               calls |-> inArg.calls + 1]
                  /\ inSeries' = inSeries
                         \o [i \in 1..Len(seriesLists) |->
                                [stackName |-> stackName, series |-> seriesLists[i]]]
    /\ pc' = "stacked"
    /\ UNCHANGED <<finderNodes, found, subFetch, fetchOut, renderVars>>

NextStacked == Stacked

SpecStacked == InitStacked /\ [][NextStacked]_vars

(***************************************************************************)
(* ConsistentHashRing (carbonlink.py)                                      *)
(***************************************************************************)
\* the carbon hosts, as (server, instance), in the order Python sorts them
HostOrder == <<<<"s1", "a">>, <<"s1", "b">>, <<"s2", "a">>>>
Hosts == {HostOrder[i] : i \in 1..Len(HostOrder)}
HostRank(node) == CHOOSE i \in 1..Len(HostOrder) : HostOrder[i] = node

\* the keys that are hashed: "%s:%d" % (key, i), and the metric looked up
Metric == <<<<"metric", "">>, 0>>
ReplicaKey(key, i) == <<key, i>>
HashedKeys(replica_count) ==
    {ReplicaKey(key, i) : key \in Hosts, i \in 0..(replica_count - 1)} \cup {Metric}

\* compute_ring_position: 16 bits of an md5 digest, here whatever the table
\* `hash` of the key gives
compute_ring_position(hash, key) == hash[key]

\* entry = position, key; tuples are ordered by position, then by key
Entry(position, key) == [position |-> position, node |-> key]
EntryLess(e1, e2) ==
    \/ e1.position < e2.position
    \/ e1.position = e2.position /\ HostRank(e1.node) < HostRank(e2.node)

\* bisect.insort(ring, entry): after the entries that are not greater
insort(ring, entry) ==
    LET k == Cardinality({i \in 1..Len(ring) : ~EntryLess(entry, ring[i])})
    IN SubSeq(ring, 1, k) \o <<entry>> \o SubSeq(ring, k + 1, Len(ring))

\* bisect.bisect_left(self.ring, (position, None)): Python 2 orders None before
\* every key; Python 3 raises TypeError once the search meets an entry at the
\* same position, which it does whenever the ring holds one
bisect_left(ring, position, python) ==
    IF python = 3 /\ \E i \in 1..Len(ring) : ring[i].position = position
    THEN Raise("TypeError")
    ELSE Return(Cardinality({i \in 1..Len(ring) : ring[i].position < position}))

\* ConsistentHashRing([], replica_count)
ConsistentHashRing(replica_count) ==
    [ring |-> <<>>, ring_len |-> 0, nodes |-> {}, nodes_len |-> 0,
     replica_count |-> replica_count]

\* the loop of add_node over range(replica_count), from i on
RECURSIVE InsertReplicas(_, _, _, _, _)
InsertReplicas(ring, hash, key, i, replica_count) ==
    IF i >= replica_count THEN ring
    ELSE InsertReplicas(
             insort(ring, Entry(compute_ring_position(hash, ReplicaKey(key, i)), key)),
             hash, key, i + 1, replica_count)

\* ConsistentHashRing.add_node
add_node(self, hash, key) ==
    LET ring == InsertReplicas(self.ring, hash, key, 0, self.replica_count)
    IN [self EXCEPT !.nodes = self.nodes \cup {key},
                    !.nodes_len = Cardinality(self.nodes \cup {key}),
                    !.ring = ring,
                    !.ring_len = Len(ring)]

\* ConsistentHashRing.remove_node
remove_node(self, key) ==
    LET ring == SelectSeq(self.ring, LAMBDA entry : entry.node # key)
    IN [self EXCEPT !.nodes = self.nodes \ {key},
                    !.nodes_len = Cardinality(self.nodes \ {key}),
                    !.ring = ring,
                    !.ring_len = Len(ring)]

\* ConsistentHashRing.get_node
get_node(self, hash, key, python) ==
    LET found_at == bisect_left(self.ring, compute_ring_position(hash, key), python)
    IN IF self.ring = <<>> THEN Raise("AssertionError")
       ELSE IF found_at.status # "ok" THEN found_at
            ELSE Return(PyGet(self.ring, found_at.value % self.ring_len).node)

\* the while loop of get_nodes
RECURSIVE GetNodesLoop(_, _, _, _)
GetNodesLoop(self, index, last_index, nodes) ==
    IF Len(nodes) < self.nodes_len /\ index # last_index
    THEN LET next_node == PyGet(self.ring, index).node
         IN GetNodesLoop(self, (index + 1) % self.ring_len, last_index,
                         IF \E i \in 1..Len(nodes) : nodes[i] = next_node
                         THEN nodes ELSE Append(nodes, next_node))
    ELSE nodes

\* ConsistentHashRing.get_nodes
get_nodes(self, hash, key, python) ==
    LET found_at == bisect_left(self.ring, compute_ring_position(hash, key), python)
        index == found_at.value % self.ring_len
    IN IF found_at.status # "ok" THEN found_at
       ELSE IF self.ring_len = 0 THEN Raise("ZeroDivisionError")
            ELSE Return(GetNodesLoop(self, index, (index - 1) % self.ring_len, <<>>))

\* the interpreter, and the hash tables
Pythons == {2, 3}
HashTables(replica_count) == [HashedKeys(replica_count) -> 0..MaxPosition]

InitRing ==
    /\ IdlePipeline
    /\ pc = "ring"
    /\ inSeries = <<>>
    /\ \E replica_count \in 1..MaxReplicas, python \in Pythons :
           \E hash \in HashTables(replica_count) :
               inArg = [self |-> ConsistentHashRing(replica_count), hash |-> hash,
                        python |-> python, ops |-> 0]
    /\ out = <<>>

AddNode ==
    /\ pc \in {"ring", "add_node", "remove_node"}
    /\ inArg.ops < MaxOps
    /\ \E key \in Hosts :
           /\ inArg' = [inArg EXCEPT !.self = add_node(inArg.self, inArg.hash, key),
                                     !.ops = inArg.ops + 1]
           /\ out' = [key |-> key, before |-> inArg.self]
    /\ pc' = "add_node"
    /\ UNCHANGED <<finderNodes, found, subFetch, fetchOut, renderVars, inSeries>>

RemoveNode ==
    /\ pc \in {"ring", "add_node", "remove_node"}
    /\ inArg.ops < MaxOps
    /\ \E key \in Hosts :
           /\ inArg' = [inArg EXCEPT !.self = remove_node(inArg.self, key),
                                     !.ops = inArg.ops + 1]
           /\ out' = [key |-> key, before |-> inArg.self]
    /\ pc' = "remove_node"
    /\ UNCHANGED <<finderNodes, found, subFetch, fetchOut, renderVars, inSeries>>

\* get_node(key) and get_nodes(key) on the ring as it is
GetNodes ==
    /\ pc \in {"ring", "add_node", "remove_node"}
    /\ out' = [node |-> get_node(inArg.self, inArg.hash, Metric, inArg.python),
               nodes |-> get_nodes(inArg.self, inArg.hash, Metric, inArg.python)]
    /\ pc' = "get_nodes"
    /\ UNCHANGED <<finderNodes, found, subFetch, fetchOut, renderVars, inSeries,
                   inArg>>

NextRing == AddNode \/ RemoveNode \/ GetNodes

SpecRing == InitRing /\ [][NextRing]_vars

(***************************************************************************)
(* CarbonLinkPool (carbonlink.py)                                          *)
(***************************************************************************)
\* retry_delay=15, the default of CarbonLinkPool.__init__
retry_delay == 15

\* the host lists of a pool: two hosts or more of HostOrder, in that order
HostLists ==
    {SelectSeq(HostOrder, LAMBDA host : host \in chosen) :
        chosen \in {some \in SUBSET Hosts : Cardinality(some) >= 2}}
ServersOf(hosts) == {hosts[i][1] : i \in 1..Len(hosts)}

\* the loop of ConsistentHashRing.__init__ over the nodes, from i on
RECURSIVE AddNodes(_, _, _, _)
AddNodes(self, hash, nodes, i) ==
    IF i > Len(nodes) THEN self
    ELSE AddNodes(add_node(self, hash, nodes[i]), hash, nodes, i + 1)

\* CarbonLinkPool(hosts, replication_factor=replication_factor); the ring has
\* replica_count entries per host where the code has 100
CarbonLinkPool(hosts, replication_factor, hash, replica_count) ==
    IF Cardinality(ServersOf(hosts)) < replication_factor
    THEN Raise("Exception")
    ELSE Return([hosts |-> hosts,
                 retry_delay |-> retry_delay,
                 replication_factor |-> replication_factor,
                 hash_ring |-> AddNodes(ConsistentHashRing(replica_count), hash,
                                        hosts, 1),
                 connections |-> {},
                 last_failure |-> <<>>])

\* CarbonLinkPool.is_available at the time now; last_failure is a dict, and
\* a host missing from it has failed at time 0
is_available(self, host, now) ==
    LET last_fail == IF host \in DOMAIN self.last_failure
                     THEN self.last_failure[host] ELSE 0
    IN (now - last_fail) < self.retry_delay

\* the loop of select_host over the nodes of the ring, from i on
RECURSIVE SelectNodes(_, _, _, _, _)
SelectNodes(self, ring_nodes, i, servers, nodes) ==
    IF i > Len(ring_nodes) THEN nodes
    ELSE IF ring_nodes[i][1] \in servers
         THEN SelectNodes(self, ring_nodes, i + 1, servers, nodes)
         ELSE IF Cardinality(servers \cup {ring_nodes[i][1]})
                     >= self.replication_factor
              THEN Append(nodes, ring_nodes[i])
              ELSE SelectNodes(self, ring_nodes, i + 1,
                               servers \cup {ring_nodes[i][1]},
                               Append(nodes, ring_nodes[i]))

\* CarbonLinkPool.select_host up to random.choice: the candidate nodes and the
\* list the host is drawn from, or the exception raised
select_host(self, hash, metric, python, now) ==
    LET ring_nodes == get_nodes(self.hash_ring, hash, metric, python)
        nodes == SelectNodes(self, ring_nodes.value, 1, {}, <<>>)
        available == SelectSeq(nodes, LAMBDA n : is_available(self, n, now))
    IN IF ring_nodes.status # "ok" THEN ring_nodes
       ELSE IF nodes = <<>> THEN Raise("IndexError")
            ELSE Return([nodes |-> nodes,
                         choice |-> IF available # <<>> THEN available ELSE nodes])

\* self.last_failure[host] = time.time()
record_failure(self, host, now) ==
    [self EXCEPT !.last_failure =
        [h \in (DOMAIN self.last_failure) \cup {host} |->
            IF h = host THEN now ELSE self.last_failure[h]]]

\* get_connection and the rest of send_request for the host selected; what
\* the network does is one of `outcomes`
Outcomes(self, host) ==
    {"sent", "send failed"}
        \cup (IF host \in self.connections THEN {} ELSE {"connect failed"})
send_request(self, host, outcome, now) ==
    LET taken == [self EXCEPT !.connections = self.connections \ {host}]
    IN IF outcome = "sent"
       THEN [taken EXCEPT !.connections = taken.connections \cup {host}]
       ELSE record_failure(taken, host, now)

InitPool ==
    /\ IdlePipeline
    /\ pc = "pool"
    /\ inSeries = <<>>
    /\ \E hosts \in HostLists, replication_factor \in 1..2, python \in Pythons :
           \E hash \in HashTables(MaxReplicas) :
               LET pool == CarbonLinkPool(hosts, replication_factor, hash,
                                          MaxReplicas)
               IN /\ pool.status = "ok"
                  /\ inArg = [self |-> pool.value,
                              hash |-> [key \in {Metric} |-> hash[key]],
                              python |-> python, now |-> MinTime,
                              ticks |-> 0, requests |-> 0]
    /\ out = <<>>

\* time passes: a second, or the retry delay
Tick ==
    /\ pc \in {"pool", "send_request"}
    /\ inArg.ticks < MaxTicks
    /\ \E seconds \in {1, retry_delay} :
           inArg' = [inArg EXCEPT !.now = inArg.now + seconds,
                                  !.ticks = inArg.ticks + 1]
    /\ UNCHANGED <<pc, finderNodes, found, subFetch, fetchOut, renderVars,
                   inSeries, out>>

\* send_request for the metric: the host is selected, then the request
\* succeeds or fails on it
SendRequest ==
    /\ pc \in {"pool", "send_request"}
    /\ inArg.requests < MaxRequests
    /\ LET selected == select_host(inArg.self, inArg.hash, Metric, inArg.python,
                                   inArg.now)
       IN IF selected.status # "ok"
          THEN /\ out' = [status |-> selected.status, before |-> inArg.self,
                          now |-> inArg.now]
               /\ inArg' = [inArg EXCEPT !.requests = inArg.requests + 1]
          ELSE \E i \in 1..Len(selected.value.choice) :
                   LET host == selected.value.choice[i]
                   IN \E outcome \in Outcomes(inArg.self, host) :
                          /\ out' = [status |-> "ok", before |-> inArg.self,
                                     now |-> inArg.now,
                                     nodes |-> selected.value.nodes,
                                     host |-> host, outcome |-> outcome]
                          /\ inArg' = [inArg EXCEPT
                                 !.self = send_request(inArg.self, host, outcome,
                                                       inArg.now),
                                 !.requests = inArg.requests + 1]
    /\ pc' = "send_request"
    /\ UNCHANGED <<finderNodes, found, subFetch, fetchOut, renderVars, inSeries>>

NextPool == Tick \/ SendRequest

SpecPool == InitPool /\ [][NextPool]_vars

(***************************************************************************)
(* Properties of Store.find                                                *)
(***************************************************************************)
ReportedLeaves(p) ==
    {n \in matching_nodes(finderNodes) : n.is_leaf /\ n.path = p}
ReportingFinders(p) ==
    {f \in Finders : \E n \in finderNodes[f] : n.is_leaf /\ n.path = p}
YieldedLeaves(p) ==
    {i \in 1..Len(found) : found[i].is_leaf /\ found[i].path = p}

\* C1: when two or more finders report a leaf with the same path, find yields
\* exactly one leaf node for that path and its reader is a MultiReader over all
\* the leaf nodes reported for the path; when exactly one leaf is reported for
\* a path, that very node is what find yields for it.
C1_FindDedup ==
    pc = "found" =>
        \A p \in Paths :
            /\ Cardinality(ReportingFinders(p)) >= 2 =>
                   /\ Cardinality(YieldedLeaves(p)) = 1
                   /\ \A i \in YieldedLeaves(p) :
                          found[i].reader = MultiReader(ReportedLeaves(p))
            /\ Cardinality(ReportedLeaves(p)) = 1 =>
                   /\ Cardinality(YieldedLeaves(p)) = 1
                   /\ \A i \in YieldedLeaves(p) : found[i] \in ReportedLeaves(p)

\* find has run where one path is a leaf in two finders and another path is a
\* leaf in exactly one
C1_Witness ==
    /\ pc = "found"
    /\ \E p, q \in Paths :
           /\ Cardinality(ReportingFinders(p)) >= 2
           /\ Cardinality(ReportedLeaves(q)) = 1

(***************************************************************************)
(* Properties of MultiReader                                               *)
(***************************************************************************)
ReturnedResults == Returned(subFetch)
HasSample(r, t) ==
    t >= r.time_info[1] /\ SlotIndex(r, t) < Len(r.values)
SampleAt(r, t) == IF HasSample(r, t) THEN r.values[SlotIndex(r, t) + 1] ELSE Null

\* the value the merge contract gives output time t
PreferFiner(fine, coarse, t) ==
    IF SampleAt(fine, t) # Null THEN SampleAt(fine, t) ELSE SampleAt(coarse, t)

\* C2: merging two fetch results, whatever their starts, ends and steps, gives
\* at every output timestamp t of the merged window the finer series' sample at
\* t when it has a non-null one there, and otherwise the coarser series' sample
\* of the bucket containing t (null when it has none).
C2_MergePrefersFiner ==
    (pc = "fetched" /\ Len(ReturnedResults) = 2) =>
        LET fine == Finer(ReturnedResults[1], ReturnedResults[2])
            coarse == Coarser(ReturnedResults[1], ReturnedResults[2])
            start == Min(fine.time_info[1], coarse.time_info[1])
            end == Max(fine.time_info[2], coarse.time_info[2])
            step == fine.time_info[3]
            n == LoopCount(start, end, step)
        IN /\ fetchOut.status = "returned"
           /\ fetchOut.data.time_info = <<start, end, step>>
           /\ Len(fetchOut.data.values) = n
           /\ \A k \in 1..n :
                  fetchOut.data.values[k] =
                      PreferFiner(fine, coarse, start + (k - 1) * step)

\* the merge contract applied left to right over the returned results
RECURSIVE ContractMergeAll(_, _)
ContractMerge(a, b) ==
    LET fine == Finer(a, b)
        coarse == Coarser(a, b)
        start == Min(fine.time_info[1], coarse.time_info[1])
        end == Max(fine.time_info[2], coarse.time_info[2])
        step == fine.time_info[3]
    IN Result(start, end, step,
              [k \in 1..LoopCount(start, end, step) |->
                  PreferFiner(fine, coarse, start + (k - 1) * step)])
ContractMergeAll(data, rest) ==
    IF rest = <<>> THEN data
    ELSE ContractMergeAll(ContractMerge(data, Head(rest)), Tail(rest))

\* C3: an exception of one underlying node's fetch is not propagated: as long
\* as at least one underlying fetch returns a result, fetch returns, and what
\* it returns is the pairwise merge of all the returned results.
C3_FetchIsolatesFailures ==
    (pc = "fetched" /\ ReturnedResults # <<>>) =>
        /\ fetchOut.status = "returned"
        /\ fetchOut.data =
               ContractMergeAll(Head(ReturnedResults), Tail(ReturnedResults))

\* C4: when every underlying node's fetch fails, fetch fails itself ("All
\* sub-fetches failed") and returns nothing.
C4_AllFailedRaises ==
    (pc = "fetched" /\ \A i \in 1..Len(subFetch) : subFetch[i].kind = "raise") =>
        fetchOut = AllFailed

C4_Witness ==
    /\ pc = "fetched"
    /\ Len(subFetch) >= 2
    /\ \A i \in 1..Len(subFetch) : subFetch[i].kind = "raise"

(***************************************************************************)
(* Properties of the fetch accumulator and of fetchData                    *)
(***************************************************************************)
CallsOf(op) == {i \in 1..Len(calls) : calls[i].op = op}
InSeq(x, seq) == \E i \in 1..Len(seq) : seq[i] = x
Stored(data, path) == IF HasKey(data, path) THEN data[path] ELSE <<>>
AllNull(values) == \A i \in 1..Len(values) : values[i] = Null

\* C5: add_data drops a raw result for a path if and only if all its values are
\* null and a result with a non-null value is already stored for that path; in
\* every other case the result is appended to what is stored for the path.
C5_AddDataRule ==
    [][(pc = "store" /\ ix <= Len(fetches) /\ fetches[ix].results.kind = "result") =>
          LET path == fetches[ix].node.path
              r == fetches[ix].results
              before == Stored(store.data, path)
              after == Stored(store'.data, path)
              drop == /\ AllNull(r.values)
                      /\ \E i \in 1..Len(before) : ~AllNull(before[i].values)
          IN /\ drop => after = before
             /\ ~drop => after = Append(before, [time_info |-> r.time_info,
                                                 values |-> r.values])
             /\ \A q \in Paths \ {path} :
                    Stored(store'.data, q) = Stored(store.data, q)]_vars

\* the fetches of path p handled so far that returned (time_info, values)
HandledResults(p) ==
    {i \in 1..(ix - 1) : fetches[i].node.path = p /\ fetches[i].results.kind = "result"}

\* an all-null result was dropped after a non-null one, and an all-null result
\* was kept although another all-null one was stored
C5_Witness ==
    /\ pc = "store"
    /\ \E p \in Paths :
           Cardinality(HandledResults(p)) > Len(Stored(store.data, p))
    /\ \E q \in Paths :
           /\ Len(Stored(store.data, q)) >= 2
           /\ \A i \in 1..Len(Stored(store.data, q)) : AllNull(store.data[q][i].values)

\* C6: once the fetch phase has finished the accumulator holds at most one fetch
\* result per concrete path, so a pattern looked up yields at most one series
\* per concrete path, whatever patterns were requested.
C6_OneResultPerPath ==
    pc \in {"evaluate", "done"} =>
        /\ \A p \in DOMAIN store.data : Len(store.data[p]) <= 1
        /\ \A e \in DOMAIN store.paths :
               LET r == get_series_list(store, e)
               IN r.status = "ok" =>
                      \A i, j \in 1..Len(r.value) :
                          r.value[i].name = r.value[j].name => i = j

\* C7: when node.fetch of one resolved leaf raises, fetchData does not raise:
\* the node contributes nothing and the results of the other nodes are stored.
C7_NodeFailureIsolated ==
    (pc \in {"store", "evaluate", "done", "raised"}
     /\ \E i \in 1..Len(fetches) : fetches[i].results.kind = "raise") =>
        /\ error # "fetch"
        /\ Len(fetches) = Len(singleNodes)
        /\ pc \in {"evaluate", "done"} =>
               \A i \in 1..Len(fetches) :
                   (fetches[i].results.kind = "result"
                    /\ ~AllNull(fetches[i].results.values)) =>
                       \E k \in 1..Len(Stored(store.data, fetches[i].node.path)) :
                           store.data[fetches[i].node.path][k].values =
                               fetches[i].results.values

\* the series stored for the paths a pattern resolved to, in path order
RECURSIVE StoredSeries(_, _, _)
StoredSeries(data, ps, path_expr) ==
    IF ps = <<>> THEN <<>>
    ELSE SeriesOfPath(Stored(data, Head(ps)), Head(ps), path_expr)
         \o StoredSeries(data, Tail(ps), path_expr)

\* C8: a leaf node whose fetch yields no result at all is skipped without
\* failing the request: fetchData returns, and a path expression that resolved
\* to that node evaluates to the series of the other resolved paths.
C8_NoResultSkipped ==
    \A i \in 1..Len(fetches) :
        (/\ fetches[i].results.kind = "none"
         /\ \A j \in 1..Len(fetches) : fetches[j].results.kind # "raise") =>
            /\ error \notin {"fetch", "fetch_multi"}
            /\ pc = "evaluate" =>
                   \A e \in DOMAIN store.paths :
                       fetches[i].node.path \in store.paths[e] =>
                           /\ get_series_list(store, e).status = "ok"
                           /\ get_series_list(store, e).value =
                                  StoredSeries(store.data, SortPaths(store.paths[e]), e)

\* the leaf nodes the requested patterns resolved to, in the order met
ResolvedNodes == NodesOf(LeafPairs(finderNodes, pathExprs))
FetchMultiCalls(f) ==
    {i \in CallsOf("fetch_multi") : calls[i].arg.finder = f}
MultiPhaseDone ==
    \/ pc \in {"store", "evaluate", "done"}
    \/ pc = "raised" /\ error # "fetch_multi"

\* C11: fetchData calls fetch_multi exactly once on each multi-fetch finder that
\* has a resolved node, with all of the finder's resolved nodes in that call,
\* never calls it on a finder without one, and makes no per-node fetch for a
\* node of a multi-fetch finder.
C11_OneBatchedCallPerFinder ==
    /\ \A f \in MultiFinders :
           LET mine == SelectSeq(ResolvedNodes,
                                 LAMBDA n : HasFetchMulti(n) /\ n.reader.of = f)
           IN /\ Cardinality(FetchMultiCalls(f)) <= 1
              /\ \A i \in FetchMultiCalls(f) :
                     calls[i].arg.nodes = mine /\ mine # <<>>
              /\ (MultiPhaseDone /\ mine # <<>>) =>
                     Cardinality(FetchMultiCalls(f)) = 1
    /\ \A i \in 1..Len(fetches) : ~HasFetchMulti(fetches[i].node)
    /\ MultiPhaseDone =>
           \A i \in 1..Len(singleNodes) : ~HasFetchMulti(singleNodes[i])

\* a multi-fetch finder was called with two nodes, and another node was
\* fetched on its own
C11_Witness ==
    /\ pc = "store"
    /\ \E i \in CallsOf("fetch_multi") : Len(calls[i].arg.nodes) >= 2
    /\ fetches # <<>>

(***************************************************************************)
(* Properties of the render request                                        *)
(***************************************************************************)

C10_EvaluationReadOnly ==
    [][pc = "evaluate" => store' = store]_vars

(***************************************************************************)
(* Properties of TimeSeries                                                *)
(***************************************************************************)
CeilDiv(a, b) == (a + b - 1) \div b
Window(values, k, i) ==
    SubSeq(values, (i - 1) * k + 1, Min(i * k, Len(values)))

\* what the window's values consolidate to under the function named
Consolidated(func, window) ==
    LET usable == SelectSeq(window, LAMBDA v : v # Null)
    IN IF usable = <<>> THEN Null
       ELSE CASE func = "sum" -> SumSeq(usable)
              [] func = "average" -> float_div(SumSeq(usable), Len(usable))
              [] func = "max" -> MaxSeq(usable)
              [] func = "min" -> MinSeq(usable)

\* C12: iterating a series with valuesPerPoint = k > 1 yields, window of k raw
\* values by window, the consolidation function applied to the window's
\* non-null values, and null for a window without one.
C12_WindowsConsolidated ==
    (pc = "iterate" /\ inSeries[1].valuesPerPoint > 1) =>
        LET series == inSeries[1]
            k == series.valuesPerPoint
        IN /\ Len(out) >= CeilDiv(Len(series.values), k)
           /\ \A i \in 1..CeilDiv(Len(series.values), k) :
                  out[i] = Consolidated(series.consolidationFunc,
                                        Window(series.values, k, i))

\* a series of two windows, with a null in the first and a partial second one
C12_Witness ==
    /\ pc = "iterate"
    /\ inSeries[1].valuesPerPoint = 3
    /\ inSeries[1].consolidationFunc = "average"
    /\ inSeries[1].values = <<12, Null, 24, 24>>
    /\ out[1] = 18
    /\ out[2] = 24

\* C13: iterating a series of len raw values with valuesPerPoint = k > 1 yields
\* exactly ceil(len / k) values.
C13_IterationLength ==
    (pc = "iterate" /\ inSeries[1].valuesPerPoint > 1) =>
        Len(out) = CeilDiv(Len(inSeries[1].values), inSeries[1].valuesPerPoint)

\* C14: neither consolidate(k) nor an iteration changes the raw values stored
\* or their number; consolidate changes valuesPerPoint only.
C14_RawValuesKept ==
    [][/\ inSeries'[1].values = inSeries[1].values
       /\ Len(inSeries'[1].values) = Len(inSeries[1].values)
       /\ [inSeries'[1] EXCEPT !.valuesPerPoint = 1] =
              [inSeries[1] EXCEPT !.valuesPerPoint = 1]]_vars

\* a series consolidated by 2 whose iteration differs from its raw values
C14_Witness ==
    /\ pc = "iterate"
    /\ inSeries[1].valuesPerPoint = 2
    /\ Len(inSeries[1].values) = 4
    /\ out # inSeries[1].values

(***************************************************************************)
(* Properties of normalize and sumSeries                                   *)
(***************************************************************************)
\* the series handed in, whatever lists they came in
AllSeries == reduce_concat(inSeries)
SeriesIx == 1..Len(AllSeries)
Aligned ==
    \A i, j \in SeriesIx :
        /\ AllSeries[i].start = AllSeries[j].start
        /\ AllSeries[i].end = AllSeries[j].end
        /\ AllSeries[i].step = AllSeries[j].step
IsLeastCommonMultiple(m, steps) ==
    /\ m > 0
    /\ \A d \in steps : m % d = 0
    /\ \A smaller \in 1..(m - 1) : \E d \in steps : smaller % d # 0
\* e is `latest` rounded down to a step boundary, the boundaries counted from start
IsRoundedDown(e, latest, start, step) ==
    /\ e <= latest
    /\ latest - e < step
    /\ (e - start) % step = 0

\* C15: normalize of a non-empty collection returns the least common multiple
\* of the steps as step, leaves every series consolidated by step / its own
\* step, returns the least start as start, and as end the greatest end rounded
\* down to a step boundary.
C15_Normalize ==
    pc = "normalize" =>
        /\ IsLeastCommonMultiple(out.step, {AllSeries[i].step : i \in SeriesIx})
        /\ Len(out.seriesList) = Len(AllSeries)
        /\ \A i \in SeriesIx :
               /\ AllSeries[i].valuesPerPoint * AllSeries[i].step = out.step
               /\ out.seriesList[i] = AllSeries[i]
        /\ \A i \in SeriesIx : out.start <= AllSeries[i].start
        /\ \E i \in SeriesIx : out.start = AllSeries[i].start
        /\ IsRoundedDown(out.end, MaxOf({AllSeries[i].end : i \in SeriesIx}),
                         out.start, out.step)

\* two series of steps 2 and 3, and an end that had to be rounded
C15_Witness ==
    /\ pc = "normalize"
    /\ Len(AllSeries) = 2
    /\ out.step = 6
    /\ AllSeries[1].valuesPerPoint = 3
    /\ AllSeries[2].valuesPerPoint = 2
    /\ out.end < MaxOf({AllSeries[i].end : i \in SeriesIx})

\* C16, as stated: normalize of series that all share (start, end, step)
\* returns the same series, valuesPerPoint 1, and exactly that start, end and
\* step.
C16_AlignedUnchanged ==
    (pc = "normalize" /\ Aligned) =>
        /\ out.seriesList = AllSeries
        /\ \A i \in SeriesIx : AllSeries[i].valuesPerPoint = 1
        /\ out.start = AllSeries[1].start
        /\ out.end = AllSeries[1].end
        /\ out.step = AllSeries[1].step

\* C16, amended: normalize of series that all share (start, end, step) returns
\* the same series, valuesPerPoint 1, that start and that step, and as end the
\* shared end rounded down to a step boundary counted from start: the shared
\* end itself when end - start is a multiple of step.
C16_AlignedRounded ==
    (pc = "normalize" /\ Aligned) =>
        /\ out.seriesList = AllSeries
        /\ \A i \in SeriesIx : AllSeries[i].valuesPerPoint = 1
        /\ out.start = AllSeries[1].start
        /\ out.step = AllSeries[1].step
        /\ IsRoundedDown(out.end, AllSeries[1].end, out.start, out.step)
        /\ (AllSeries[1].end - AllSeries[1].start) % AllSeries[1].step = 0 =>
               out.end = AllSeries[1].end

\* two series sharing start, end and step whose end is off the step boundary
C16_Witness ==
    /\ pc = "normalize"
    /\ Aligned
    /\ Len(AllSeries) = 2
    /\ AllSeries[1].step = 2
    /\ AllSeries[1].end - AllSeries[1].start = 3
    /\ out.end = AllSeries[1].end - 1

RECURSIVE SumOver(_, _)
SumOver(f, S) ==
    IF S = {} THEN 0
    ELSE LET k == CHOOSE k \in S : TRUE IN f[k] + SumOver(f, S \ {k})
\* "sumSeries(" + the sorted, de-duplicated, comma-joined expressions + ")"
SumSeriesName(exprs) ==
    CASE exprs = {"a.*"} -> <<"sumSeries(", "a.*", ")">>
      [] exprs = {"a.b"} -> <<"sumSeries(", "a.b", ")">>
      [] exprs = {"a.*", "a.b"} -> <<"sumSeries(", "a.*", ",", "a.b", ")">>

\* C18: sumSeries over series that share start, end and step returns exactly
\* one series; its i-th value is the sum of the inputs' non-null i-th values
\* (null where no input has one), and its name is "sumSeries(" followed by the
\* sorted, de-duplicated, comma-joined path expressions of the inputs and ")".
C18_SumSeries ==
    (pc = "sumSeries" /\ Aligned) =>
        /\ Len(out) = 1
        /\ out[1].name = SumSeriesName({AllSeries[k].pathExpression : k \in SeriesIx})
        /\ Len(out[1].values) = MaxOf({Len(AllSeries[k].values) : k \in SeriesIx})
        /\ \A i \in 1..Len(out[1].values) :
               LET having == {k \in SeriesIx : /\ i <= Len(AllSeries[k].values)
                                               /\ AllSeries[k].values[i] # Null}
                   ith == [k \in having |-> AllSeries[k].values[i]]
               IN out[1].values[i] =
                      IF having = {} THEN Null ELSE SumOver(ith, having)

\* two series, the expressions out of order, a null summed with a sample and
\* two samples summed
C18_Witness ==
    /\ pc = "sumSeries"
    /\ Aligned
    /\ Len(AllSeries) = 2
    /\ AllSeries[1].pathExpression = "a.b"
    /\ AllSeries[2].pathExpression = "a.*"
    /\ AllSeries[1].values = <<Null, 12>>
    /\ AllSeries[2].values = <<12, 12>>
    /\ out[1].values = <<12, 24>>

(***************************************************************************)
(* Properties of template substitution                                     *)
(***************************************************************************)
SoleMarkerBound ==
    /\ pc = "evaluated"
    /\ \E name \in DOMAIN inArg.replacements : inArg.expression = <<Marker(name)>>
BoundValue ==
    inArg.replacements[CHOOSE name \in DOMAIN inArg.replacements :
                           inArg.expression = <<Marker(name)>>]
\* digits and decimal points, optionally after a minus
IsNumberLike(chars) ==
    \E sign \in {<<>>, <<"-">>} :
        \E body \in Strings(Len(chars)) :
            /\ body # <<>>
            /\ \A i \in 1..Len(body) : body[i] \in Digits \cup {"."}
            /\ chars = sign \o body

\* C17: a path expression that is solely a marker $name whose bound value is a
\* string of digits and decimal points, optionally after a minus, evaluates to
\* that value converted to a number, not to a series lookup; a bound value
\* that is not a string is returned unchanged.
C17_TemplateCoercion ==
    SoleMarkerBound =>
        /\ (BoundValue.type = "str" /\ IsNumberLike(BoundValue.chars)) =>
               /\ out.status = "ok"
               /\ out.value.type = "float"
        /\ BoundValue.type # "str" =>
               /\ out.status = "ok"
               /\ out.value = BoundValue

(***************************************************************************)
(* Properties of _getPercentile                                            *)
(***************************************************************************)
\* the non-null samples in ascending order: a rearrangement of them
Samples == sorted(SelectSeq(inArg.points, LAMBDA v : v # Null))
\* (n/100) * (c + 1), a fractional rank rounded up
RankOf(n, c) == (n * (c + 1) + 99) \div 100

\* C19: in non-interpolated mode _getPercentile returns null when there is no
\* non-null sample, and else the sample at rank (n/100)*(c+1), a fractional
\* rank rounded up, of the c sorted non-null samples: the first sample for
\* rank 0 and the last one when the rank exceeds c.
C19_PercentileRank ==
    pc = "returned" =>
        LET c == Len(Samples)
            rank == RankOf(inArg.n, c)
        IN out[1] = IF c = 0 THEN Null
                    ELSE IF rank = 0 THEN Samples[1]
                    ELSE IF rank > c THEN Samples[c]
                    ELSE Samples[rank]

\* C20, as stated: over the samples 1..100 with n = 30 _getPercentile returns 30.
C20_Returns30 ==
    (pc = "returned" /\ inArg.points = Range(1, 100) /\ inArg.n = 30) =>
        out[1] = 30

\* C20, amended: over the samples 1..100 with n = 30 _getPercentile returns
\* 31, the sample at rank 30.3 rounded up.
C20_Returns31 ==
    (pc = "returned" /\ inArg.points = Range(1, 100) /\ inArg.n = 30) =>
        out[1] = 31

C20_Witness ==
    /\ pc = "returned"
    /\ inArg.points = Range(1, 100)
    /\ inArg.n = 30
    /\ out = <<31>>

(***************************************************************************)
(* Properties of percentileOfSeries and nPercentile                        *)
(***************************************************************************)
\* C21: percentileOfSeries and nPercentile both answer a percentile n <= 0
\* with a validation error, never with a computed result.
C21_NonPositiveRejected ==
    (pc \in {"percentileOfSeries", "nPercentile"} /\ inArg.n <= 0)
        => out.status \in {"ValueError", "AssertionError"}

(***************************************************************************)
(* Properties of match_entries and expand_braces                           *)
(***************************************************************************)
HasBrace(pattern) == \E i \in 1..Len(pattern) : pattern[i] \in {"{", "}"}

\* the entries that match, each where it occurs first
FirstMatches(entries, pattern) ==
    LET first(i) == \A j \in 1..(i - 1) : entries[j] # entries[i]
        keep == {i \in 1..Len(entries) : fnmatch(entries[i], pattern) /\ first(i)}
        nth(k) == CHOOSE i \in keep : Cardinality({j \in keep : j <= i}) = k
    IN [k \in 1..Cardinality(keep) |-> entries[nth(k)]]

\* C22: for a pattern without braces match_entries returns exactly the names
\* that glob-match the pattern, in the order of their first occurrence in the
\* list, each name once.
C22_GlobFiltered ==
    (pc = "match_entries" /\ ~HasBrace(inArg.pattern))
        => out = FirstMatches(inSeries, inArg.pattern)

C22_Witness ==
    /\ pc = "match_entries"
    /\ inArg.pattern = <<"[", "!", "a", "]">>
    /\ inSeries = <<<<"b">>, <<"a">>, <<"b">>>>
    /\ out = <<<<"b">>>>

\* a "}" that closes a group: one no backslash escapes
IsClose(pattern, i) ==
    pattern[i] = "}" /\ ~(i > 1 /\ pattern[i - 1] = "\\")

\* how many groups are open after the characters i..j
Depth(pattern, i, j) ==
    Cardinality({k \in i..j : pattern[k] = "{"})
        - Cardinality({k \in i..j : IsClose(pattern, k)})

\* the "{" that have a "}" of their own, and that "}"
Groups(pattern) ==
    {i \in 1..Len(pattern) :
        pattern[i] = "{" /\ \E j \in i..Len(pattern) : Depth(pattern, i, j) = 0}
CloseOf(pattern, i) ==
    MinOf({j \in i..Len(pattern) : Depth(pattern, i, j) = 0})

\* the alternatives of a group: its inside cut at the commas of no inner group
RECURSIVE Alternatives(_)
Alternatives(inside) ==
    LET commas == {c \in 1..Len(inside) :
                      inside[c] = "," /\ Depth(inside, 1, c) = 0}
    IN IF commas = {} THEN {inside}
       ELSE {SubSeq(inside, 1, MinOf(commas) - 1)}
            \cup Alternatives(SubSeq(inside, MinOf(commas) + 1, Len(inside)))

\* every string got by choosing one alternative of every group, outermost first
RECURSIVE Choices(_)
Choices(pattern) ==
    IF Groups(pattern) = {} THEN {replace_escaped(pattern)}
    ELSE LET i == MinOf(Groups(pattern))
             j == CloseOf(pattern, i)
         IN UNION {Choices(SubSeq(pattern, 1, i - 1) \o alt
                           \o SubSeq(pattern, j + 1, Len(pattern))) :
                      alt \in Alternatives(SubSeq(pattern, i + 1, j - 1))}

NoGroupLeft(s) ==
    ~\E i, j \in 1..Len(s) : i < j /\ s[i] = "{" /\ s[j] = "}"

\* C23: expand_braces returns exactly the strings got by choosing one
\* alternative of every brace group of the pattern, nested groups included, and
\* no string it returns still holds a brace group.
C23_AllChoices ==
    pc = "expand_braces"
        => /\ out = Choices(inArg.pattern)
           /\ \A s \in out : NoGroupLeft(s)

\* C24 as stated: expand_braces("a{b,c{d,e}}") is the set {abd, abe, ac}.
C24_ClaimedSet ==
    (pc = "expand_braces" /\ inArg.pattern = NestedPattern)
        => out = {<<"a", "b", "d">>, <<"a", "b", "e">>, <<"a", "c">>}

\* C24: expand_braces("a{b,c{d,e}}") is the set {ab, acd, ace}.
C24_NestedExpansion ==
    (pc = "expand_braces" /\ inArg.pattern = NestedPattern)
        => out = {<<"a", "b">>, <<"a", "c", "d">>, <<"a", "c", "e">>}

C24_Witness ==
    /\ pc = "expand_braces"
    /\ inArg.pattern = NestedPattern
    /\ Cardinality(out) = 3

(***************************************************************************)
(* Properties of the two passes over a target                              *)
(***************************************************************************)
\* C25: every path expression pass 2 looks up in the data store is one of the
\* path expressions pass 1 collected for the same target and request context,
\* templates bound to numbers, to strings or overridden by the context included.
C25_LookupsCollected ==
    pc = "evaluated"
        => \A i \in 1..Len(out.lookups.value) :
               \E j \in 1..Len(out.paths.value) :
                   out.lookups.value[i] = out.paths.value[j]

(***************************************************************************)
(* Properties of _fetchWithBootstrap                                       *)
(***************************************************************************)
\* the series of the bootstrap period that belongs to an input series
BootstrapOf(series) == inArg.window[series.pathExpression][1]

\* C26: _fetchWithBootstrap returns one series per input series, in the same
\* order, each holding the samples of the bootstrap period followed by the
\* samples of that input series, under the input's name and path expression.
C26_BootstrapPrepended ==
    pc = "_fetchWithBootstrap"
        => /\ out.status = "ok"
           /\ Len(out.value) = Len(inSeries)
           /\ \A i \in 1..Len(inSeries) :
                  /\ out.value[i].name = inSeries[i].name
                  /\ out.value[i].pathExpression = inSeries[i].pathExpression
                  /\ out.value[i].values =
                         BootstrapOf(inSeries[i]).values \o inSeries[i].values

(***************************************************************************)
(* Properties of stacked                                                   *)
(***************************************************************************)
\* the place in inSeries of the j-th series of the last call
LastCall(j) == Len(inSeries) - Len(out) + j

\* the total at index i of the non-null values of the series stacked under the
\* stack name of the k-th series, up to and including it
RECURSIVE RunningTotal(_, _, _)
RunningTotal(k, upto, i) ==
    IF upto = 0 THEN 0
    ELSE RunningTotal(k, upto - 1, i)
         + (IF /\ inSeries[upto].stackName = inSeries[k].stackName
               /\ i <= Len(inSeries[upto].series.values)
               /\ inSeries[upto].series.values[i] # Null
            THEN inSeries[upto].series.values[i] ELSE 0)

\* C27: over the calls of stacked that share a request context and a stack
\* name, an output value at index i is the running total of the non-null values
\* at index i of every series stacked so far; a null input gives a null output
\* and adds nothing.
C27_RunningTotal ==
    pc = "stacked"
        => \A j \in 1..Len(out) :
               LET k == LastCall(j)
                   values == inSeries[k].series.values
               IN /\ Len(out[j].values) = Len(values)
                  /\ \A i \in 1..Len(values) :
                         out[j].values[i] =
                             IF values[i] = Null THEN Null
                             ELSE RunningTotal(k, k, i)

C27_Witness ==
    /\ pc = "stacked"
    /\ inArg.calls = 2
    /\ Len(inSeries) = 3
    /\ Len(out) = 1
    /\ \A k \in 1..3 : inSeries[k].stackName = "tx"
    /\ inSeries[1].series.values = <<12, 12>>
    /\ inSeries[2].series.values = <<Null, 12>>
    /\ inSeries[3].series.values = <<12, 12>>
    /\ out[1].values = <<24, 36>>

(***************************************************************************)
(* Properties of ConsistentHashRing                                        *)
(***************************************************************************)
\* the ring walked once round from the first entry at or after the position of
\* the key (from the first entry of all when there is none)
RingFrom(self, position) ==
    LET before == Cardinality({i \in 1..Len(self.ring) :
                                  self.ring[i].position < position})
    IN [i \in 1..Len(self.ring) |->
           self.ring[((before + i - 1) % Len(self.ring)) + 1].node]

\* the nodes of a walk, each where it is met first
FirstMet(walk) ==
    LET keep == {i \in 1..Len(walk) : \A j \in 1..(i - 1) : walk[j] # walk[i]}
        nth(k) == CHOOSE i \in keep : Cardinality({j \in keep : j <= i}) = k
    IN [k \in 1..Cardinality(keep) |-> walk[nth(k)]]

\* C28: on a ring that has members, get_nodes(key) returns every member node
\* once, in the order of the ring, beginning with the node get_node(key) returns.
C28_EveryNodeInRingOrder ==
    (pc = "get_nodes" /\ inArg.self.nodes # {})
        => /\ out.node.status = "ok"
           /\ out.nodes.status = "ok"
           /\ out.nodes.value = FirstMet(RingFrom(inArg.self, inArg.hash[Metric]))
           /\ {out.nodes.value[i] : i \in 1..Len(out.nodes.value)} = inArg.self.nodes
           /\ out.nodes.value[1] = out.node.value

EntriesOf(self, node) ==
    Cardinality({i \in 1..Len(self.ring) : self.ring[i].node = node})

\* C29: after any calls of add_node and remove_node, nodes_len is the number of
\* member nodes and the ring holds replica_count entries of each member and
\* none of any other node; adding a member again, or removing a node that is
\* no member, changes nothing.
C29_RingMatchesMembers ==
    pc \in {"add_node", "remove_node"}
        => /\ inArg.self.nodes_len = Cardinality(inArg.self.nodes)
           /\ \A node \in Hosts :
                  EntriesOf(inArg.self, node) =
                      IF node \in inArg.self.nodes THEN inArg.self.replica_count
                      ELSE 0
           /\ (pc = "add_node" /\ out.key \in out.before.nodes)
                  => inArg.self = out.before
           /\ (pc = "remove_node" /\ out.key \notin out.before.nodes)
                  => inArg.self = out.before

(***************************************************************************)
(* Properties of CarbonLinkPool                                            *)
(***************************************************************************)
\* the last recorded failure of the host is less than retry_delay seconds old
FailedLately(self, host, now) ==
    /\ host \in DOMAIN self.last_failure
    /\ now - self.last_failure[host] < self.retry_delay

\* C30: select_host does not choose a host that failed less than retry_delay
\* seconds ago while another candidate replica has no such failure, and a host
\* that has never failed counts as available.
C30_RecentFailureAvoided ==
    (pc = "send_request" /\ out.status = "ok")
        => /\ FailedLately(out.before, out.host, out.now)
                  => \A i \in 1..Len(out.nodes) :
                         FailedLately(out.before, out.nodes[i], out.now)
           /\ \A i \in 1..Len(out.nodes) :
                  out.nodes[i] \notin DOMAIN out.before.last_failure
                      => is_available(out.before, out.nodes[i], out.now)

====
